---------------------------- MODULE Spec2Model ----------------------------
(***************************************************************************)
(* Weather-App: the cache-aside weather/forecast retrieval engine          *)
(* (weatherapp/services.py), the multi-strategy geolocation resolver       *)
(* (weatherapp/enhanced_geolocation_service.py) and the HTTP handlers that *)
(* drive them (weatherapp/views.py).                                       *)
(*                                                                         *)
(* Conventions of the model                                                *)
(*  - a Python str is a sequence of one-character strings, so that strip,  *)
(*    lower and title are computed and not assumed;                        *)
(*  - a Python dict is a record / function from field names to values;     *)
(*    d[k] = v is SetField(d, k, v);                                       *)
(*  - a temperature is an integer number of hundredths of a degree on the  *)
(*    provider side and of tenths of a degree after round(x, 1);           *)
(*  - the Django cache is a function from the keys present to the values   *)
(*    stored; the store copies (pickles) values, so no aliasing exists     *)
(*    between a stored value and the dict a caller goes on to modify;      *)
(*  - every handler is one action; what the provider, the cache store or   *)
(*    the database answers during the handler is an input of the action;   *)
(*  - requests are served one at a time: a handler runs when no response   *)
(*    is pending, and Respond hands the pending response to the client.    *)
(***************************************************************************)
EXTENDS Integers, Sequences, FiniteSets, TLC

VARIABLES
    cache,      \* the cache store: key -> stored dict
    last,       \* the handler call whose response is on its way to the client:
                \* its inputs, response and effects; NoCall when the worker is idle
    prev        \* the get_weather lookup answered just before, when it succeeded

vars == <<cache, last, prev>>

-----------------------------------------------------------------------------
(* Python values *)

\* None, kept a sequence so that it compares with every str of the model
None == <<"<None>">>

\* d[k] = v on a dict
SetField(d, k, v) == (k :> v) @@ d

\* d.get(k, default)
GetField(d, k, default) == IF k \in DOMAIN d THEN d[k] ELSE default

Lowers == <<"a", "b", "c", "d", "e", "f", "g", "h", "i", "j", "k", "l", "m",
            "n", "o", "p", "q", "r", "s", "t", "u", "v", "w", "x", "y", "z">>

Uppers == <<"A", "B", "C", "D", "E", "F", "G", "H", "I", "J", "K", "L", "M",
            "N", "O", "P", "Q", "R", "S", "T", "U", "V", "W", "X", "Y", "Z">>

IsUpper(ch) == \E i \in DOMAIN Uppers : Uppers[i] = ch

IsLower(ch) == \E i \in DOMAIN Lowers : Lowers[i] = ch

IsLetter(ch) == IsUpper(ch) \/ IsLower(ch)

IsSpace(ch) == ch = " "

LowerChar(ch) ==
    IF IsUpper(ch) THEN Lowers[CHOOSE i \in DOMAIN Uppers : Uppers[i] = ch] ELSE ch

UpperChar(ch) ==
    IF IsLower(ch) THEN Uppers[CHOOSE i \in DOMAIN Lowers : Lowers[i] = ch] ELSE ch

\* str.lower()
Lower(s) == [i \in DOMAIN s |-> LowerChar(s[i])]

\* str.strip(): leading and trailing whitespace removed
Strip(s) ==
    LET keep == {i \in DOMAIN s : ~IsSpace(s[i])}
    IN  IF keep = {} THEN <<>>
        ELSE LET lo == CHOOSE i \in keep : \A j \in keep : i <= j
                 hi == CHOOSE i \in keep : \A j \in keep : j <= i
             IN  SubSeq(s, lo, hi)

\* str.title(): a letter that follows a non-letter is upper-cased, every other
\* letter is lower-cased
Title(s) ==
    [i \in DOMAIN s |->
        IF i = 1 \/ ~IsLetter(s[i - 1]) THEN UpperChar(s[i]) ELSE LowerChar(s[i])]

\* round(x, 1) of x given in hundredths, result in tenths. Python rounds the
\* binary float: a tie that the float holds exactly (hundredths ending in 25 or
\* 75) goes to the even neighbour; the model feeds no other tie.
Round1(h) ==
    LET q == h \div 10
        r == h % 10
    IN  IF r < 5 THEN q
        ELSE IF r > 5 THEN q + 1
        ELSE IF q % 2 = 0 THEN q ELSE q + 1

\* `not city` for a str or None
\* Faulty variant of Falsy: only the empty string counts as missing
Falsy_empty_only(s) == s = <<>>

Falsy(s) == s = None \/ s = <<>>

-----------------------------------------------------------------------------
(* The cache store (django.core.cache): get / set / delete / clear by key *)

EmptyCache == [k \in {} |-> None]

\* Faulty variant of cache_has: every entry is taken to be out of date
cache_has_never(c, key) == FALSE

cache_has(c, key) == key \in DOMAIN c

cache_set(c, key, value) == (key :> value) @@ c

cache_delete(c, key) == [k \in (DOMAIN c) \ {key} |-> c[k]]

cache_clear(c) == EmptyCache

-----------------------------------------------------------------------------
(* What the outside world can answer *)

\* HTTP error statuses the weather provider answers with
HttpStatuses == {404, 401, 500}

\* The city the provider names in its answer to the query q
ProviderName(q) == Title(Lower(q))

\* Bodies of a 2xx answer of the current-weather endpoint. Of the fields the
\* engine consumes the model keeps one of each treatment: name and country
\* (copied), temp (rounded), description (title-cased), wind.deg (optional,
\* defaulted to 0); the others are treated like one of these.
WeatherBodies(q) ==
    { [name |-> ProviderName(q), country |-> "XX", temp |-> 1534,
       description |-> <<"l", "i", "g", "h", "t", " ", "r", "a", "i", "n">>,
       wind |-> [speed |-> 4, deg |-> 270]],
      [name |-> ProviderName(q), country |-> "XX", temp |-> -275,
       description |-> <<"c", "l", "e", "a", "r">>,
       wind |-> [speed |-> 2]] }

\* One answer of the weather provider to one request
WeatherOutcomes(q) ==
    {[kind |-> "ok", body |-> b] : b \in WeatherBodies(q)}
        \cup {[kind |-> "http", status |-> s] : s \in HttpStatuses}
        \cup {[kind |-> "timeout"], [kind |-> "connection"], [kind |-> "malformed"]}

-----------------------------------------------------------------------------
(* WeatherService: current weather *)

\* Faulty variant of get_cache_key: the name is used as it was given
get_cache_key_raw(city) == <<"weather_data_", city>>

get_cache_key(city) == <<"weather_data_", Strip(Lower(city))>>

\* The try block of _fetch_from_api on a 2xx answer
format_weather(data) ==
    [success |-> TRUE,
     city |-> data.name,
     country |-> data.country,
     temperature |-> Round1(data.temp),
     description |-> Title(data.description),
     wind_speed |-> data.wind.speed,
     wind_deg |-> GetField(data.wind, "deg", 0)]

\* Faulty variant of map_weather_error: the RequestException clause is tried
\* before the Timeout clause, so a timeout is reported as a connection error
map_weather_error_reordered(outcome) ==
    IF outcome.kind = "http" THEN
        IF outcome.status = 404 THEN
            [success |-> FALSE, error |-> "City not found",
             details |-> "Please check the city name and try again"]
        ELSE IF outcome.status = 401 THEN
            [success |-> FALSE, error |-> "Invalid API key",
             details |-> "Please configure a valid API key in .env file"]
        ELSE
            [success |-> FALSE, error |-> "API error: " \o ToString(outcome.status),
             details |-> "str(e)"]
    ELSE
        [success |-> FALSE, error |-> "Connection error",
         details |-> "Could not connect to weather service: str(e)"]

\* The except clauses of _fetch_from_api: HTTPError by status, then Timeout,
\* then any other RequestException
map_weather_error(outcome) ==
    IF outcome.kind = "http" THEN
        IF outcome.status = 404 THEN
            [success |-> FALSE, error |-> "City not found",
             details |-> "Please check the city name and try again"]
        ELSE IF outcome.status = 401 THEN
            [success |-> FALSE, error |-> "Invalid API key",
             details |-> "Please configure a valid API key in .env file"]
        ELSE
            [success |-> FALSE, error |-> "API error: " \o ToString(outcome.status),
             details |-> "str(e)"]
    ELSE IF outcome.kind = "timeout" THEN
        [success |-> FALSE, error |-> "Request timeout",
         details |-> "The weather service is taking too long to respond"]
    ELSE
        [success |-> FALSE, error |-> "Connection error",
         details |-> "Could not connect to weather service: str(e)"]

\* _fetch_from_api: the dict it returns, or raised = TRUE when an exception
\* that is no RequestException leaves it (a 2xx body that lacks a field)
fetch_from_api(city, outcome) ==
    IF outcome.kind = "ok" THEN [raised |-> FALSE, value |-> format_weather(outcome.body)]
    ELSE IF outcome.kind = "malformed" THEN [raised |-> TRUE]
    ELSE [raised |-> FALSE, value |-> map_weather_error(outcome)]

\* The provider request a call makes, with the kind of answer it got
WeatherCall(city, outcome) ==
    [endpoint |-> "weather", q |-> city, units |-> "metric",
     answer |-> outcome.kind, status |-> GetField(outcome, "status", 200)]

\* Faulty variant of cached_weather: the cached dict is returned unmarked
cached_weather_unmarked(cached_data) == cached_data

\* Step 1 of get_weather on a hit: the cached dict, marked as cached
cached_weather(cached_data) == SetField(cached_data, "from_cache", TRUE)

\* Faulty variant of store_weather: the fetched dict is never stored
store_weather_skipped(c, cache_key, weather_data) == c

\* Faulty variant of store_weather: the fetched dict is stored whatever it is
store_weather_always(c, cache_key, weather_data) == cache_set(c, cache_key, weather_data)

\* Step 3 of get_weather: the fetched dict is stored only if it is a success
store_weather(c, cache_key, weather_data) ==
    IF GetField(weather_data, "success", FALSE) THEN cache_set(c, cache_key, weather_data)
    ELSE c

\* Faulty variant of get_weather: an exception of the fetch is not caught
get_weather_unguarded(c, cityArg, outcome) ==
    IF Falsy(cityArg) \/ Falsy(Strip(cityArg)) THEN
        [result |-> [success |-> FALSE, error |-> "City name is required",
                     details |-> "Please provide a valid city name"],
         cache |-> c, calls |-> <<>>, reads |-> <<>>]
    ELSE
        LET city == Strip(cityArg)
            cache_key == get_cache_key(city)
        IN  IF cache_has(c, cache_key) THEN
                [result |-> cached_weather(c[cache_key]), cache |-> c, calls |-> <<>>,
                 reads |-> <<cache_key>>]
            ELSE
                LET fetched == fetch_from_api(city, outcome)
                IN  IF fetched.raised THEN
                        [result |-> [raised |-> "Exception"],
                         cache |-> c, calls |-> <<WeatherCall(city, outcome)>>,
                         reads |-> <<cache_key>>]
                    ELSE
                        [result |-> SetField(fetched.value, "from_cache", FALSE),
                         cache |-> store_weather(c, cache_key, fetched.value),
                         calls |-> <<WeatherCall(city, outcome)>>,
                         reads |-> <<cache_key>>]

\* get_weather: the dict returned, the cache afterwards, the provider requests
\* made and the cache keys read
get_weather(c, cityArg, outcome) ==
    IF Falsy(cityArg) \/ Falsy(Strip(cityArg)) THEN
        [result |-> [success |-> FALSE, error |-> "City name is required",
                     details |-> "Please provide a valid city name"],
         cache |-> c, calls |-> <<>>, reads |-> <<>>]
    ELSE
        LET city == Strip(cityArg)
            cache_key == get_cache_key(city)
        IN  IF cache_has(c, cache_key) THEN
                [result |-> cached_weather(c[cache_key]), cache |-> c, calls |-> <<>>,
                 reads |-> <<cache_key>>]
            ELSE
                LET fetched == fetch_from_api(city, outcome)
                IN  IF fetched.raised THEN
                        [result |-> [success |-> FALSE,
                                     error |-> "Failed to fetch weather data",
                                     details |-> "str(e)"],
                         cache |-> c, calls |-> <<WeatherCall(city, outcome)>>,
                         reads |-> <<cache_key>>]
                    ELSE
                        [result |-> SetField(fetched.value, "from_cache", FALSE),
                         cache |-> store_weather(c, cache_key, fetched.value),
                         calls |-> <<WeatherCall(city, outcome)>>,
                         reads |-> <<cache_key>>]

-----------------------------------------------------------------------------
(* WeatherService: forecast *)

SecondsPerDay == 86400

\* datetime.fromtimestamp(dt).date(), the server clock on UTC: the day number
DateOf(dt) == dt \div SecondsPerDay

\* One entry of the provider's list (3-hour intervals): the model keeps dt,
\* main.temp and main.humidity; the other fields are copied like humidity
ForecastItem(dt, temp) == [dt |-> dt, temp |-> temp, humidity |-> 60]

\* Body of a 2xx answer of the forecast endpoint in the handler model: six
\* entries on four calendar dates
ForecastBodies(q) ==
    { [city |-> [name |-> ProviderName(q), country |-> "XX"],
       list |-> <<ForecastItem(0, 1534), ForecastItem(10800, 1575),
                  ForecastItem(86400, 1200), ForecastItem(97200, 1249),
                  ForecastItem(172800, -275), ForecastItem(259200, 8)>>] }

ForecastOutcomes(q) ==
    {[kind |-> "ok", body |-> b] : b \in ForecastBodies(q)}
        \cup {[kind |-> "http", status |-> s] : s \in HttpStatuses}
        \cup {[kind |-> "timeout"], [kind |-> "connection"], [kind |-> "malformed"]}

Min(a, b) == IF a <= b THEN a ELSE b

\* The dict appended for one kept entry
forecast_entry(item) ==
    [date |-> item.dt, temperature |-> Round1(item.temp), humidity |-> item.humidity]

\* The for loop of _fetch_forecast_from_api from entry i on: forecasts and
\* seen_dates are the loop's variables; the loop breaks once days are collected
RECURSIVE scan_forecast(_, _, _, _, _)
scan_forecast(list, i, days, forecasts, seen_dates) ==
    IF i > Len(list) THEN forecasts
    ELSE LET item == list[i]
             date == DateOf(item.dt)
         IN  IF date \notin seen_dates THEN
                 LET appended == Append(forecasts, forecast_entry(item))
                 IN  IF Len(appended) >= days THEN appended
                     ELSE scan_forecast(list, i + 1, days, appended,
                                        seen_dates \cup {date})
             ELSE scan_forecast(list, i + 1, days, forecasts, seen_dates)

\* Faulty variant of reduce_forecast: the loop never breaks
reduce_forecast_nobreak(list, days) == scan_forecast(list, 1, Len(list) + 1, <<>>, {})

\* Faulty variant of reduce_forecast: the scan passes over the first entry
reduce_forecast_skip_first(list, days) == scan_forecast(list, 2, days, <<>>, {})

reduce_forecast(list, days) == scan_forecast(list, 1, days, <<>>, {})

\* The try block of _fetch_forecast_from_api on a 2xx answer
format_forecast(data, days) ==
    LET forecasts == reduce_forecast(data.list, days)
    IN  [success |-> TRUE,
         city |-> data.city.name,
         country |-> data.city.country,
         forecasts |-> forecasts,
         forecast_count |-> Len(forecasts)]

\* Variant of map_forecast_error that maps by status as _fetch_from_api does
map_forecast_error_by_status(outcome) == map_weather_error(outcome)

\* The single except clause of _fetch_forecast_from_api: every exception, an
\* HTTP status included, gives the same error
map_forecast_error(outcome) ==
    [success |-> FALSE, error |-> "Failed to fetch forecast", details |-> "str(e)"]

\* _fetch_forecast_from_api never raises
fetch_forecast_from_api(city, days, outcome) ==
    IF outcome.kind = "ok" THEN format_forecast(outcome.body, days)
    ELSE map_forecast_error(outcome)

\* Faulty variant of forecast_cache_key: one key for a city's forecasts
forecast_cache_key_city_only(city, days) == <<"weather_forecast_", Lower(city), 0>>

forecast_cache_key(city, days) == <<"weather_forecast_", Lower(city), days>>

ForecastCall(city, days, outcome) ==
    [endpoint |-> "forecast", q |-> city, units |-> "metric", cnt |-> Min(days * 8, 40),
     answer |-> outcome.kind, status |-> GetField(outcome, "status", 200)]

\* Faulty variant of cached_forecast: the cached dict is returned unmarked
cached_forecast_unmarked(cached_data) == cached_data

\* get_forecast on a hit: the cached dict, marked as cached
cached_forecast(cached_data) == SetField(cached_data, "from_cache", TRUE)

\* get_forecast: the fetched dict is stored only if it is a success
store_forecast(c, cache_key, forecast_data) ==
    IF GetField(forecast_data, "success", FALSE) THEN cache_set(c, cache_key, forecast_data)
    ELSE c

\* get_forecast: as get_weather
get_forecast(c, cityArg, days, outcome) ==
    IF Falsy(cityArg) \/ Falsy(Strip(cityArg)) THEN
        [result |-> [success |-> FALSE, error |-> "City name is required"],
         cache |-> c, calls |-> <<>>]
    ELSE
        LET city == Strip(cityArg)
            cache_key == forecast_cache_key(city, days)
        IN  IF cache_has(c, cache_key) THEN
                [result |-> cached_forecast(c[cache_key]), cache |-> c, calls |-> <<>>]
            ELSE
                LET forecast_data == fetch_forecast_from_api(city, days, outcome)
                IN  [result |-> SetField(forecast_data, "from_cache", FALSE),
                     cache |-> store_forecast(c, cache_key, forecast_data),
                     calls |-> <<ForecastCall(city, days, outcome)>>]

\* Variant of clear_cache that also deletes the forecast keys of the city given
clear_cache_with_forecasts(c, city) ==
    IF ~Falsy(city) THEN
        LET gone == {k \in DOMAIN c :
                        \/ k = get_cache_key(city)
                        \/ k[1] = "weather_forecast_" /\ k[2] = Strip(Lower(city))}
        IN  [k \in (DOMAIN c) \ gone |-> c[k]]
    ELSE cache_clear(c)

\* Variant of clear_cache that, with no city, deletes the current-weather keys only
clear_cache_weather_only(c, city) ==
    IF ~Falsy(city) THEN cache_delete(c, get_cache_key(city))
    ELSE [k \in {k \in DOMAIN c : k[1] # "weather_data_"} |-> c[k]]

\* Faulty variant of clear_cache: nothing is deleted
clear_cache_nothing(c, city) == c

\* clear_cache: one current-weather key deleted, or the whole store flushed
clear_cache(c, city) ==
    IF ~Falsy(city) THEN cache_delete(c, get_cache_key(city))
    ELSE cache_clear(c)

-----------------------------------------------------------------------------
(* EnhancedGeolocationService. A coordinate is an integer number of tenths of
   a degree; a distance is an integer number of metres. *)

\* `v` counts as true for a str or None
Truthy(v) == ~Falsy(v)

\* a or b or ... : the first true operand, else the last operand
RECURSIVE FirstTruthy(_)
FirstTruthy(values) ==
    IF Len(values) = 1 \/ Truthy(Head(values)) THEN Head(values)
    ELSE FirstTruthy(Tail(values))

\* str.upper()
Upper(s) == [i \in DOMAIN s |-> UpperChar(s[i])]

\* {} as the body of an answer
EmptyDict == [k \in {} |-> None]

\* _calculate_distance (Haversine, R = 6371 km) on the points of the model,
\* from the query point (48.0, 2.0), in metres
DistanceTable ==
    (<<480, 20, 480, 20>> :> 0) @@ (<<480, 20, 481, 21>> :> 13375)
        @@ (<<480, 20, 482, 23>> :> 31478) @@ (<<480, 20, 484, 20>> :> 44478)
        @@ (<<480, 20, 490, 20>> :> 111195) @@ (<<480, 20, 480, 21>> :> 7440)
        @@ (<<480, 20, 479, 21>> :> 13383) @@ (<<480, 20, 482, 20>> :> 22239)
        @@ (<<480, 20, 480, 23>> :> 22321) @@ (<<480, 20, 481, 23>> :> 24918)
        @@ (<<480, 20, 482, 22>> :> 26742) @@ (<<480, 20, 480, 24>> :> 29762)
        @@ (<<480, 20, 483, 20>> :> 33358) @@ (<<480, 20, 480, 25>> :> 37202)
        @@ (<<480, 20, 483, 23>> :> 40101)

calculate_distance(lat1, lon1, lat2, lon2) == DistanceTable[<<lat1, lon1, lat2, lon2>>]

\* Answers of the detailed reverse-geocoding provider (Nominatim)
NominatimBodies ==
    { [address |-> [suburb |-> <<"M", "o">>, city |-> <<"P", "a">>,
                    state |-> <<"I", "d">>, country |-> <<"F", "r">>,
                    country_code |-> <<"f", "r">>],
       lat |-> 481, lon |-> 21,
       display_name |-> <<"M", "o", ",", "P", "a">>],
      [address |-> [town |-> <<"L", "o">>, county |-> <<"K", "e">>]],
      [address |-> [country |-> <<"F", "r">>]],
      [error |-> "Unable to geocode"],
      [display_name |-> <<"M", "o", ",", "P", "a">>, lat |-> 481, lon |-> 21],
      EmptyDict }

\* What a request to a geolocation provider can end in besides a 2xx answer with
\* a JSON body: a timeout, a transport error, a non-2xx status
\* (raise_for_status) and a body that is no JSON (response.json() raises)
FailureKinds == {"timeout", "error", "http", "malformed"}

NominatimOutcomes ==
    {[kind |-> "ok", body |-> b] : b \in NominatimBodies}
        \cup {[kind |-> k] : k \in FailureKinds}

\* Answers of the coarse reverse-geocoding provider (OpenWeatherMap geo/1.0)
OwmReverseBodies ==
    { << [name |-> <<"P", "a">>, state |-> <<"I", "d">>, country |-> <<"F", "R">>,
          lat |-> 480, lon |-> 20],
         [name |-> <<"L", "o">>, country |-> <<"G", "B">>, lat |-> 490, lon |-> 20] >>,
      << [country |-> <<"F", "R">>, lat |-> 480, lon |-> 20] >>,
      << >> }

OwmReverseOutcomes ==
    {[kind |-> "ok", body |-> b] : b \in OwmReverseBodies}
        \cup {[kind |-> k] : k \in FailureKinds}

\* Answers of the nearest-city search (OpenWeatherMap data/2.5/find)
FindBodies ==
    { [list |-> << [name |-> <<"P", "a">>, sys |-> [country |-> <<"F", "R">>],
                    coord |-> [lat |-> 481, lon |-> 21]],
                   [name |-> <<"L", "o">>, sys |-> [country |-> <<"G", "B">>],
                    coord |-> [lat |-> 490, lon |-> 20]] >>],
      [list |-> << [name |-> <<"P", "a">>] >>],
      [list |-> << >>],
      EmptyDict }

FindOutcomes ==
    {[kind |-> "ok", body |-> b] : b \in FindBodies}
        \cup {[kind |-> k] : k \in FailureKinds}

\* Faulty variant of _get_location_from_nominatim: the city is looked for before
\* the suburb, the neighbourhood and the town
get_location_from_nominatim_city_first(latitude, longitude, outcome) ==
    IF outcome.kind = "ok" /\ outcome.body # EmptyDict /\ "address" \in DOMAIN outcome.body
    THEN
        LET data == outcome.body
            address == data.address
            city == FirstTruthy(<<GetField(address, "city", None),
                                  GetField(address, "suburb", None),
                                  GetField(address, "neighbourhood", None),
                                  GetField(address, "town", None),
                                  GetField(address, "municipality", None),
                                  GetField(address, "county", None),
                                  GetField(address, "state", None)>>)
        IN  [success |-> TRUE,
             city |-> city,
             suburb |-> GetField(address, "suburb", <<>>),
             town |-> GetField(address, "town", <<>>),
             city_district |-> GetField(address, "city_district", <<>>),
             state |-> GetField(address, "state", <<>>),
             country |-> GetField(address, "country", <<>>),
             country_code |-> Upper(GetField(address, "country_code", <<>>)),
             latitude |-> GetField(data, "lat", latitude),
             longitude |-> GetField(data, "lon", longitude),
             display_name |-> GetField(data, "display_name", <<>>),
             source |-> "OpenStreetMap",
             accuracy |-> "high"]
    ELSE [success |-> FALSE]

\* _get_location_from_nominatim
get_location_from_nominatim(latitude, longitude, outcome) ==
    IF outcome.kind = "ok" /\ outcome.body # EmptyDict /\ "address" \in DOMAIN outcome.body
    THEN
        LET data == outcome.body
            address == data.address
            city == FirstTruthy(<<GetField(address, "suburb", None),
                                  GetField(address, "neighbourhood", None),
                                  GetField(address, "town", None),
                                  GetField(address, "city", None),
                                  GetField(address, "municipality", None),
                                  GetField(address, "county", None),
                                  GetField(address, "state", None)>>)
        IN  [success |-> TRUE,
             city |-> city,
             suburb |-> GetField(address, "suburb", <<>>),
             town |-> GetField(address, "town", <<>>),
             city_district |-> GetField(address, "city_district", <<>>),
             state |-> GetField(address, "state", <<>>),
             country |-> GetField(address, "country", <<>>),
             country_code |-> Upper(GetField(address, "country_code", <<>>)),
             latitude |-> GetField(data, "lat", latitude),
             longitude |-> GetField(data, "lon", longitude),
             display_name |-> GetField(data, "display_name", <<>>),
             source |-> "OpenStreetMap",
             accuracy |-> "high"]
    ELSE [success |-> FALSE]

\* Faulty variant of _get_location_from_openweather: the result dict is the one
\* of the detailed provider, with its tags and its fields
get_location_from_openweather_pasted(latitude, longitude, outcome) ==
    IF outcome.kind = "ok" /\ Len(outcome.body) > 0 THEN
        LET location == outcome.body[1]
        IN  [success |-> TRUE,
             city |-> GetField(location, "name", None),
             suburb |-> <<>>,
             town |-> <<>>,
             state |-> GetField(location, "state", <<>>),
             country |-> GetField(location, "country", None),
             country_code |-> GetField(location, "country", None),
             latitude |-> GetField(location, "lat", None),
             longitude |-> GetField(location, "lon", None),
             display_name |-> <<>>,
             source |-> "OpenStreetMap",
             accuracy |-> "high"]
    ELSE [success |-> FALSE]

\* _get_location_from_openweather
get_location_from_openweather(latitude, longitude, outcome) ==
    IF outcome.kind = "ok" /\ Len(outcome.body) > 0 THEN
        LET location == outcome.body[1]
        IN  [success |-> TRUE,
             city |-> GetField(location, "name", None),
             state |-> GetField(location, "state", <<>>),
             country |-> GetField(location, "country", None),
             country_code |-> GetField(location, "country", None),
             latitude |-> GetField(location, "lat", None),
             longitude |-> GetField(location, "lon", None),
             source |-> "OpenWeatherMap",
             accuracy |-> "medium"]
    ELSE [success |-> FALSE]

\* _find_nearest_weather_station; a first candidate without coordinates makes
\* _calculate_distance raise, which the except clause turns into a failure
find_nearest_weather_station(latitude, longitude, outcome) ==
    IF /\ outcome.kind = "ok"
       /\ outcome.body # EmptyDict
       /\ "list" \in DOMAIN outcome.body
       /\ Len(outcome.body.list) > 0
    THEN
        LET closest == outcome.body.list[1]
            coord == GetField(closest, "coord", EmptyDict)
        IN  IF "lat" \in DOMAIN coord /\ "lon" \in DOMAIN coord THEN
                [success |-> TRUE,
                 city |-> GetField(closest, "name", None),
                 country |-> GetField(GetField(closest, "sys", EmptyDict), "country", None),
                 latitude |-> coord.lat,
                 longitude |-> coord.lon,
                 distance |-> calculate_distance(latitude, longitude, coord.lat, coord.lon),
                 source |-> "Weather Stations",
                 accuracy |-> "medium"]
            ELSE [success |-> FALSE]
    ELSE [success |-> FALSE]

\* One request to a geolocation provider, with what the strategy made of it
GeoCall(provider, result) == [endpoint |-> provider, success |-> result.success]

LocationNotFound ==
    [success |-> FALSE, error |-> "Could not determine location",
     details |-> "Unable to find city/town for these coordinates"]

\* Faulty variant of get_precise_location: the nearest-station search is left
\* out, two failures being taken for the final failure
get_precise_location_two_only(latitude, longitude, o1, o2, o3) ==
    LET osm_result == get_location_from_nominatim(latitude, longitude, o1)
        owm_result == get_location_from_openweather(latitude, longitude, o2)
    IN  IF osm_result.success THEN
            [result |-> osm_result, calls |-> <<GeoCall("nominatim", osm_result)>>]
        ELSE IF owm_result.success THEN
            [result |-> owm_result,
             calls |-> <<GeoCall("nominatim", osm_result), GeoCall("owm_reverse", owm_result)>>]
        ELSE
            [result |-> LocationNotFound,
             calls |-> <<GeoCall("nominatim", osm_result), GeoCall("owm_reverse", owm_result)>>]

\* Faulty variant of get_precise_location: the coarse provider is tried first
get_precise_location_coarse_first(latitude, longitude, o1, o2, o3) ==
    LET osm_result == get_location_from_nominatim(latitude, longitude, o1)
        owm_result == get_location_from_openweather(latitude, longitude, o2)
        nearest_result == find_nearest_weather_station(latitude, longitude, o3)
    IN  IF owm_result.success THEN
            [result |-> owm_result, calls |-> <<GeoCall("owm_reverse", owm_result)>>]
        ELSE IF osm_result.success THEN
            [result |-> osm_result,
             calls |-> <<GeoCall("owm_reverse", owm_result), GeoCall("nominatim", osm_result)>>]
        ELSE IF nearest_result.success THEN
            [result |-> nearest_result,
             calls |-> <<GeoCall("owm_reverse", owm_result), GeoCall("nominatim", osm_result),
                         GeoCall("find", nearest_result)>>]
        ELSE
            [result |-> LocationNotFound,
             calls |-> <<GeoCall("owm_reverse", owm_result), GeoCall("nominatim", osm_result),
                         GeoCall("find", nearest_result)>>]

\* Faulty variant of get_precise_location: the first request is sent again
get_precise_location_retry(latitude, longitude, o1, o2, o3) ==
    LET r == get_precise_location_two_only(latitude, longitude, o1, o2, o3)
    IN  [result |-> r.result, calls |-> <<r.calls[1]>> \o r.calls]

\* get_precise_location: o1, o2, o3 are the answers the three providers would
\* give; the dict returned and the requests made, in order
get_precise_location(latitude, longitude, o1, o2, o3) ==
    LET osm_result == get_location_from_nominatim(latitude, longitude, o1)
        owm_result == get_location_from_openweather(latitude, longitude, o2)
        nearest_result == find_nearest_weather_station(latitude, longitude, o3)
    IN  IF osm_result.success THEN
            [result |-> osm_result, calls |-> <<GeoCall("nominatim", osm_result)>>]
        ELSE IF owm_result.success THEN
            [result |-> owm_result,
             calls |-> <<GeoCall("nominatim", osm_result), GeoCall("owm_reverse", owm_result)>>]
        ELSE IF nearest_result.success THEN
            [result |-> nearest_result,
             calls |-> <<GeoCall("nominatim", osm_result), GeoCall("owm_reverse", owm_result),
                         GeoCall("find", nearest_result)>>]
        ELSE
            [result |-> LocationNotFound,
             calls |-> <<GeoCall("nominatim", osm_result), GeoCall("owm_reverse", owm_result),
                         GeoCall("find", nearest_result)>>]

-----------------------------------------------------------------------------
(* EnhancedGeolocationService: nearby cities. A radius is a whole number of
   kilometres; the distance of an entry, round(distance, 1), is a whole number
   of tenths of a kilometre. *)

\* round(distance, 1) of a distance in metres, in tenths of a kilometre; no
\* distance of the model lies half-way between two tenths
RoundTenthKm(metres) == (metres + 50) \div 100

\* One candidate of the provider's list
Candidate(name, lat, lon) ==
    [name |-> name, sys |-> [country |-> <<"F", "R">>],
     coord |-> [lat |-> lat, lon |-> lon]]

\* A candidate the provider gives no coordinates for
CandidateNoCoord == [name |-> <<"P", "a">>]

\* A provider list in no order of distance: eight candidates within 30 km
\* (two of which differ by 8 m), five more within 50 km, one beyond
LongCandidates ==
    << Candidate(<<"M", "e">>, 484, 20), Candidate(<<"Y", "a">>, 479, 21),
       Candidate(<<"P", "a">>, 481, 21), Candidate(<<"A", "b">>, 480, 21),
       Candidate(<<"L", "o">>, 490, 20), Candidate(<<"B", "o">>, 482, 20),
       Candidate(<<"C", "h">>, 480, 23), Candidate(<<"D", "a">>, 481, 23),
       Candidate(<<"F", "e">>, 482, 22), Candidate(<<"G", "a">>, 480, 24),
       Candidate(<<"E", "t">>, 482, 23), Candidate(<<"H", "a">>, 483, 20),
       Candidate(<<"I", "o">>, 480, 25), Candidate(<<"J", "u">>, 483, 23) >>

\* A 2xx body that holds no list of candidates
NoListBody == [message |-> "accurate", cod |-> "200", count |-> 0]

\* Answers of the nearby search (OpenWeatherMap data/2.5/find, cnt = 50)
NearbyBodies ==
    { [list |-> LongCandidates],
      [list |-> << Candidate(<<"L", "o">>, 490, 20) >>],
      [list |-> << Candidate(<<"A", "b">>, 480, 21), CandidateNoCoord >>],
      [list |-> << >>],
      NoListBody }

NearbyOutcomes ==
    {[kind |-> "ok", body |-> b] : b \in NearbyBodies}
        \cup {[kind |-> k] : k \in FailureKinds}

\* city.get('coord', {}).get('lat') and .get('lon') are both there
has_coord(city) ==
    LET coord == GetField(city, "coord", EmptyDict)
    IN  "lat" \in DOMAIN coord /\ "lon" \in DOMAIN coord

\* The loop of get_nearby_cities: the candidates within the radius, in the
\* provider's order
RECURSIVE within_radius(_, _, _, _)
within_radius(list, latitude, longitude, radius) ==
    IF list = <<>> THEN <<>>
    ELSE
        LET city == Head(list)
            distance == calculate_distance(latitude, longitude,
                                           city.coord.lat, city.coord.lon)
            rest == within_radius(Tail(list), latitude, longitude, radius)
        IN  IF distance <= radius * 1000 THEN
                << [city |-> GetField(city, "name", None),
                    country |-> GetField(GetField(city, "sys", EmptyDict), "country", None),
                    latitude |-> city.coord.lat,
                    longitude |-> city.coord.lon,
                    distance |-> RoundTenthKm(distance)] >> \o rest
            ELSE rest

\* list.sort(key=distance) is stable: an entry goes behind the entries that
\* are not farther than it
RECURSIVE insert_by_distance(_, _)
insert_by_distance(sorted, entry) ==
    IF sorted = <<>> THEN <<entry>>
    ELSE IF Head(sorted).distance <= entry.distance
         THEN <<Head(sorted)>> \o insert_by_distance(Tail(sorted), entry)
         ELSE <<entry>> \o sorted

RECURSIVE sort_by_distance(_)
sort_by_distance(cities) ==
    IF cities = <<>> THEN <<>>
    ELSE insert_by_distance(sort_by_distance(SubSeq(cities, 1, Len(cities) - 1)),
                            cities[Len(cities)])

NearbyFailed ==
    [success |-> FALSE, error |-> "Failed to find nearby cities", details |-> "str(e)"]

\* Faulty variant of get_nearby_cities: the list is not sorted
get_nearby_cities_unsorted(latitude, longitude, radius, outcome) ==
    IF outcome.kind # "ok" THEN NearbyFailed
    ELSE IF outcome.body # EmptyDict /\ "list" \in DOMAIN outcome.body THEN
        LET list == outcome.body.list
        IN  IF \E i \in DOMAIN list : ~has_coord(list[i]) THEN NearbyFailed
            ELSE
                LET cities == within_radius(list, latitude, longitude, radius)
                IN  [success |-> TRUE, cities |-> cities,
                     count |-> Len(cities), radius |-> radius]
    ELSE [success |-> FALSE, error |-> "No nearby cities found"]

\* Faulty variant of get_nearby_cities: a body without a list of candidates
\* is answered like an empty list
get_nearby_cities_lenient(latitude, longitude, radius, outcome) ==
    IF outcome.kind # "ok" THEN NearbyFailed
    ELSE IF outcome.body # EmptyDict /\ "list" \in DOMAIN outcome.body THEN
        LET list == outcome.body.list
        IN  IF \E i \in DOMAIN list : ~has_coord(list[i]) THEN NearbyFailed
            ELSE
                LET cities == sort_by_distance(
                                  within_radius(list, latitude, longitude, radius))
                IN  [success |-> TRUE, cities |-> cities,
                     count |-> Len(cities), radius |-> radius]
    ELSE [success |-> TRUE, cities |-> <<>>, count |-> 0, radius |-> radius]

\* get_nearby_cities: a failed request, a body that is no JSON and a candidate
\* without coordinates (_calculate_distance raises on None) end in the except
\* clause; a body that is empty or holds no list ends in the else branch
get_nearby_cities(latitude, longitude, radius, outcome) ==
    IF outcome.kind # "ok" THEN NearbyFailed
    ELSE IF outcome.body # EmptyDict /\ "list" \in DOMAIN outcome.body THEN
        LET list == outcome.body.list
        IN  IF \E i \in DOMAIN list : ~has_coord(list[i]) THEN NearbyFailed
            ELSE
                LET cities == sort_by_distance(
                                  within_radius(list, latitude, longitude, radius))
                IN  [success |-> TRUE, cities |-> cities,
                     count |-> Len(cities), radius |-> radius]
    ELSE [success |-> FALSE, error |-> "No nearby cities found"]

-----------------------------------------------------------------------------
(* Request parameters *)

Digits == <<"0", "1", "2", "3", "4", "5", "6", "7", "8", "9">>

IsDigit(ch) == \E i \in DOMAIN Digits : Digits[i] = ch

DigitValue(ch) == (CHOOSE i \in DOMAIN Digits : Digits[i] = ch) - 1

RECURSIVE DigitsValue(_)
DigitsValue(s) ==
    IF s = <<>> THEN 0
    ELSE 10 * DigitsValue(SubSeq(s, 1, Len(s) - 1)) + DigitValue(s[Len(s)])

\* int(text): surrounding whitespace is ignored, one sign is allowed, the rest
\* must be decimal digits; anything else raises ValueError (ok = FALSE)
ParseInt(text) ==
    LET t == Strip(text)
        signed == t # <<>> /\ t[1] \in {"+", "-"}
        digits == IF signed THEN Tail(t) ELSE t
    IN  IF digits # <<>> /\ \A i \in DOMAIN digits : IsDigit(digits[i]) THEN
            [ok |-> TRUE,
             value |-> IF signed /\ t[1] = "-" THEN 0 - DigitsValue(digits)
                       ELSE DigitsValue(digits)]
        ELSE [ok |-> FALSE]

\* A query parameter that is not sent
Absent == <<"<absent>">>

\* Faulty variant of parse_days: the range test is missing
parse_days_unclamped(daysParam) ==
    IF daysParam = Absent THEN 5
    ELSE LET parsed == ParseInt(daysParam)
         IN  IF ~parsed.ok THEN 5 ELSE parsed.value

\* The try block of the get_forecast view: int(request.GET.get('days', 5)),
\* then the range test; ValueError gives 5
parse_days(daysParam) ==
    IF daysParam = Absent THEN 5
    ELSE LET parsed == ParseInt(daysParam)
         IN  IF ~parsed.ok THEN 5
             ELSE IF parsed.value < 1 \/ parsed.value > 5 THEN 5
             ELSE parsed.value

\* request.GET.get('city', '') / request.POST.get('city', '')
CityParams == { <<"P", "a">>, <<" ", "p", "a">>, <<"L", "o">>, <<>>, <<" ">> }

\* The days parameter as sent
DaysParams ==
    { Absent, <<" ", "2">>, <<"5">>, <<"0">>, <<"6">>, <<"-", "1">>, <<"2", ".", "5">> }

\* float(request.GET.get(name, 0)) for a parameter sent in whole degrees; the
\* value is in tenths of a degree
parse_coordinate(param) ==
    IF param = Absent THEN [ok |-> TRUE, value |-> 0]
    ELSE LET parsed == ParseInt(param)
         IN  IF parsed.ok THEN [ok |-> TRUE, value |-> 10 * parsed.value]
             ELSE [ok |-> FALSE]

\* int(request.GET.get('radius', 50)): the radius in km
parse_radius(param) ==
    IF param = Absent THEN [ok |-> TRUE, value |-> 50] ELSE ParseInt(param)

\* The radius parameters sent: none, a number, not a number
RadiusParams == {Absent, <<"3", "0">>, <<"x">>}

\* Faulty variant of missing_coordinates: the test is for None, which a float
\* never is
missing_coordinates_none_only(latitude, longitude) == FALSE

\* not latitude or not longitude
missing_coordinates(latitude, longitude) == latitude = 0 \/ longitude = 0

\* The lat and lon parameters as sent
LatParams == { Absent, <<"0">>, <<"4", "8">> }

LonParams == { <<"0">>, <<"2">>, <<"x">> }

\* Faulty variant of parse_show_nearby: any value sent counts as true
parse_show_nearby_any(showParam) == showParam # Absent

\* The show_nearby parameter as sent
ShowNearbyParams == { Absent, <<"T", "r", "u", "e">>, <<"1">> }

\* request.GET.get('show_nearby', 'false').lower() == 'true'
parse_show_nearby(showParam) ==
    showParam # Absent /\ Lower(showParam) = <<"t", "r", "u", "e">>

\* What the database does with the writes of one request
DbOutcomes == {"ok", "query_log_fails", "favorite_fails"}

-----------------------------------------------------------------------------
(* The handlers of views.py. response_time_ms, a clock reading added to the
   response, is left out. A service call's outcome is bound once, as the one
   element of a singleton set, and read several times. *)

\* The record of one handler call
\* op and args: the handler and its parameters; status and response: the HTTP
\* answer; engine: the service calls made; calls: the provider requests made;
\* logged: the records handed to the database; before: the cache when the handler began
Call(op, args, status, response, engine, calls, logged, before) ==
    [op |-> op, args |-> args, status |-> status, response |-> response,
     engine |-> engine, calls |-> calls, logged |-> logged, before |-> before]

NoCall == Call("none", [city |-> <<>>], 0, [success |-> TRUE], <<>>, <<>>, <<>>, EmptyCache)

\* No response is pending
Idle == last = NoCall

\* What is remembered of an answered call
NoPrev == [op |-> "none"]

Remember(call) ==
    IF call.op = "get_weather" /\ call.response.success THEN
        [op |-> call.op, args |-> call.args, response |-> call.response,
         calls |-> call.calls]
    ELSE NoPrev

\* The records the get_weather view hands to the database for a successful
\* lookup: the WeatherQuery row, then the FavoriteCity counter; saved tells
\* whether the write went through, and an exception ends the block
log_query(weather_data, city, db) ==
    LET row == [table |-> "WeatherQuery",
                city |-> GetField(weather_data, "city", city),
                temperature |-> GetField(weather_data, "temperature", None),
                from_cache |-> GetField(weather_data, "from_cache", FALSE),
                saved |-> db # "query_log_fails"]
        counter == [table |-> "FavoriteCity",
                    city |-> GetField(weather_data, "city", city),
                    saved |-> db = "ok"]
    IN  IF db = "query_log_fails" THEN <<row>> ELSE <<row, counter>>

\* Faulty variant of log_raised: the writes are not guarded
log_raised_unguarded(db) == db # "ok"

\* Whether an exception of the database writes leaves the view: the writes
\* are in a try block whose handler only logs the exception
log_raised(db) == FALSE

\* views.get_weather
GetWeatherView(cityParam, outcome, db) ==
    LET city == Strip(cityParam)
        args == [city |-> cityParam]
    IN  /\ Idle
        /\ UNCHANGED prev
        /\ IF Falsy(city) THEN
               /\ last' = Call("get_weather", args, 400,
                               [success |-> FALSE, error |-> "City parameter is required"],
                               <<>>, <<>>, <<>>, cache)
               /\ UNCHANGED cache
           ELSE
               \E r \in {get_weather(cache, city, outcome)} :
                   /\ cache' = r.cache
                   /\ last' = Call("get_weather", args,
                                   IF r.result.success /\ log_raised(db) THEN 500
                                   ELSE IF r.result.success THEN 200 ELSE 400,
                                   IF r.result.success /\ log_raised(db)
                                   THEN [success |-> FALSE, error |-> "Server Error (500)"]
                                   ELSE r.result,
                                   <<[fn |-> "get_weather", city |-> city]>>,
                                   r.calls,
                                   IF r.result.success THEN log_query(r.result, city, db)
                                   ELSE <<>>,
                                   cache)

\* views.get_forecast
GetForecastView(cityParam, daysParam, outcome) ==
    LET city == Strip(cityParam)
        days == parse_days(daysParam)
        args == [city |-> cityParam, days |-> daysParam]
    IN  /\ Idle
        /\ UNCHANGED prev
        /\ IF Falsy(city) THEN
               /\ last' = Call("get_forecast", args, 400,
                               [success |-> FALSE, error |-> "City parameter is required"],
                               <<>>, <<>>, <<>>, cache)
               /\ UNCHANGED cache
           ELSE
               \E r \in {get_forecast(cache, city, days, outcome)} :
                   /\ cache' = r.cache
                   /\ last' = Call("get_forecast", args,
                                   IF r.result.success THEN 200 ELSE 400,
                                   r.result,
                                   <<[fn |-> "get_forecast", city |-> city, days |-> days]>>,
                                   r.calls, <<>>, cache)

\* views.clear_cache; storeOk = FALSE: the store's delete / clear raises
ClearCacheView(cityParam, storeOk) ==
    LET city == Strip(cityParam)
        args == [city |-> cityParam]
        arg == IF ~Falsy(city) THEN city ELSE None
    IN  /\ Idle
        /\ UNCHANGED prev
        /\ IF storeOk THEN
               /\ cache' = clear_cache(cache, arg)
               /\ last' = Call("clear_cache", args, 200,
                               [success |-> TRUE,
                                message |-> IF ~Falsy(city) THEN "Cache cleared for {city}"
                                            ELSE "All cache cleared"],
                               <<[fn |-> "clear_cache", city |-> arg]>>, <<>>, <<>>, cache)
           ELSE
               /\ UNCHANGED cache
               /\ last' = Call("clear_cache", args, 500,
                               [success |-> FALSE, error |-> "Failed to clear cache",
                                details |-> "str(e)"],
                               <<[fn |-> "clear_cache", city |-> arg]>>, <<>>, <<>>, cache)

\* views.reverse_geocode_enhanced
ReverseGeocodeView(latParam, lonParam, o1, o2, o3) ==
    LET lat == parse_coordinate(latParam)
        lon == parse_coordinate(lonParam)
        args == [lat |-> latParam, lon |-> lonParam]
    IN  /\ Idle
        /\ UNCHANGED <<cache, prev>>
        /\ IF ~lat.ok \/ ~lon.ok THEN
               last' = Call("reverse_geocode", args, 400,
                            [success |-> FALSE, error |-> "Invalid coordinates"],
                            <<>>, <<>>, <<>>, cache)
           ELSE IF missing_coordinates(lat.value, lon.value) THEN
               last' = Call("reverse_geocode", args, 400,
                            [success |-> FALSE, error |-> "Missing coordinates"],
                            <<>>, <<>>, <<>>, cache)
           ELSE
               \E r \in {get_precise_location(lat.value, lon.value, o1, o2, o3)} :
                   last' = Call("reverse_geocode", args,
                                IF r.result.success THEN 200 ELSE 400,
                                r.result,
                                <<[fn |-> "get_precise_location",
                                   latitude |-> lat.value, longitude |-> lon.value]>>,
                                r.calls, <<>>, cache)

\* views.get_nearby_cities: the service's result is returned as it is, with
\* JsonResponse's default status
NearbyCitiesView(latParam, lonParam, radiusParam, n) ==
    LET lat == parse_coordinate(latParam)
        lon == parse_coordinate(lonParam)
        radius == parse_radius(radiusParam)
        args == [lat |-> latParam, lon |-> lonParam, radius |-> radiusParam]
    IN  /\ Idle
        /\ UNCHANGED <<cache, prev>>
        /\ IF ~lat.ok \/ ~lon.ok \/ ~radius.ok THEN
               last' = Call("nearby_cities", args, 400,
                            [success |-> FALSE, error |-> "Invalid parameters"],
                            <<>>, <<>>, <<>>, cache)
           ELSE IF missing_coordinates(lat.value, lon.value) THEN
               last' = Call("nearby_cities", args, 400,
                            [success |-> FALSE, error |-> "Missing coordinates"],
                            <<>>, <<>>, <<>>, cache)
           ELSE
               \E r \in {get_nearby_cities(lat.value, lon.value, radius.value, n)} :
                   last' = Call("nearby_cities", args, 200, r,
                                <<[fn |-> "get_nearby_cities",
                                   latitude |-> lat.value, longitude |-> lon.value,
                                   radius |-> radius.value, returned |-> r]>>,
                                <<GeoCall("nearby", r)>>, <<>>, cache)

\* First n entries of a list: list[:n]
Take(list, n) == SubSeq(list, 1, Min(n, Len(list)))

\* The response of get_weather_by_coordinates_enhanced when the weather lookup
\* succeeded: the weather dict with the location metadata and the query
\* coordinates laid over it, and up to 5 nearby cities when they were asked
\* for and found
near_success(weather_data, location_data, latitude, longitude, show_nearby, nearby) ==
    LET response ==
            [location_detected |-> TRUE,
             detected_from |-> "gps",
             detection_accuracy |-> GetField(location_data, "accuracy", "medium"),
             detection_source |-> GetField(location_data, "source", "unknown"),
             suburb |-> GetField(location_data, "suburb", <<>>),
             state |-> GetField(location_data, "state", <<>>),
             display_name |-> GetField(location_data, "display_name", <<>>),
             coordinates |-> [lat |-> latitude, lon |-> longitude]] @@ weather_data
    IN  IF show_nearby /\ nearby.success
        THEN SetField(response, "nearby_cities", Take(GetField(nearby, "cities", <<>>), 5))
        ELSE response

\* Faulty variant of near_failure: the alternatives are not cut to 10
near_failure_uncut(weather_data, location_data, city, nearby) ==
    IF nearby.success /\ GetField(nearby, "cities", <<>>) # <<>> THEN
        [status |-> 404,
         response |-> [success |-> FALSE,
                       error |-> <<"No weather data for ", city>>,
                       details |-> "Try one of the nearby cities",
                       location_detected |-> location_data,
                       nearby_cities |-> nearby.cities,
                       suggestion |-> <<"Try: ", nearby.cities[1].city>>]]
    ELSE [status |-> 400, response |-> weather_data]

\* Its response when the weather lookup failed: the alternatives found within
\* 50 km, or the weather error when there is none
near_failure(weather_data, location_data, city, nearby) ==
    IF nearby.success /\ GetField(nearby, "cities", <<>>) # <<>> THEN
        [status |-> 404,
         response |-> [success |-> FALSE,
                       error |-> <<"No weather data for ", city>>,
                       details |-> "Try one of the nearby cities",
                       location_detected |-> location_data,
                       nearby_cities |-> Take(nearby.cities, 10),
                       suggestion |-> <<"Try: ", nearby.cities[1].city>>]]
    ELSE [status |-> 400, response |-> weather_data]

\* Faulty variant of location_failed: the early return is missing
location_failed_ignored(location_data) == FALSE

\* not location_data.get('success')
location_failed(location_data) == ~GetField(location_data, "success", FALSE)

\* views.get_weather_by_coordinates_enhanced; w and n are the answers the weather
\* provider and the nearby search would give
WeatherNearView(latParam, lonParam, showParam, o1, o2, o3, w, n) ==
    LET lat == parse_coordinate(latParam)
        lon == parse_coordinate(lonParam)
        args == [lat |-> latParam, lon |-> lonParam, show_nearby |-> showParam]
        show_nearby == parse_show_nearby(showParam)
        located(result) == [fn |-> "get_precise_location", latitude |-> lat.value,
                            longitude |-> lon.value, returned |-> result]
        looked(city, result) == [fn |-> "get_weather", city |-> city, returned |-> result]
        searched(radius, result) == [fn |-> "get_nearby_cities", latitude |-> lat.value,
                                     longitude |-> lon.value, radius |-> radius,
                                     returned |-> result]
    IN  /\ Idle
        /\ UNCHANGED prev
        /\ IF ~lat.ok \/ ~lon.ok THEN
               /\ last' = Call("weather_near", args, 400,
                               [success |-> FALSE, error |-> "Invalid coordinates",
                                details |-> "Latitude and longitude must be valid numbers"],
                               <<>>, <<>>, <<>>, cache)
               /\ UNCHANGED cache
           ELSE IF missing_coordinates(lat.value, lon.value) THEN
               /\ last' = Call("weather_near", args, 400,
                               [success |-> FALSE, error |-> "Missing coordinates",
                                details |-> "Both latitude and longitude are required"],
                               <<>>, <<>>, <<>>, cache)
               /\ UNCHANGED cache
           ELSE
               \E g \in {get_precise_location(lat.value, lon.value, o1, o2, o3)} :
                   IF location_failed(g.result) THEN
                       /\ last' = Call("weather_near", args, 400, g.result,
                                       <<located(g.result)>>, g.calls, <<>>, cache)
                       /\ UNCHANGED cache
                   ELSE
                       \E city \in {GetField(g.result, "city", None)} :
                       \E r \in {get_weather(cache, city, w)} :
                           /\ cache' = r.cache
                           /\ IF r.result.success THEN
                                  IF show_nearby THEN
                                      \E nearby \in {get_nearby_cities(lat.value, lon.value, 30, n)} :
                                          last' = Call("weather_near", args, 200,
                                                       near_success(r.result, g.result, lat.value,
                                                                    lon.value, show_nearby, nearby),
                                                       <<located(g.result), looked(city, r.result),
                                                         searched(30, nearby)>>,
                                                       g.calls \o r.calls
                                                           \o <<GeoCall("nearby", nearby)>>,
                                                       <<>>, cache)
                                  ELSE
                                      last' = Call("weather_near", args, 200,
                                                   near_success(r.result, g.result, lat.value,
                                                                lon.value, show_nearby,
                                                                [success |-> FALSE]),
                                                   <<located(g.result), looked(city, r.result)>>,
                                                   g.calls \o r.calls, <<>>, cache)
                              ELSE
                                  \E nearby \in {get_nearby_cities(lat.value, lon.value, 50, n)} :
                                      \E f \in {near_failure(r.result, g.result, city, nearby)} :
                                          last' = Call("weather_near", args, f.status,
                                                       f.response,
                                                       <<located(g.result), looked(city, r.result),
                                                         searched(50, nearby)>>,
                                                       g.calls \o r.calls
                                                           \o <<GeoCall("nearby", nearby)>>,
                                                       <<>>, cache)

\* The cache store drops an entry whose TTL (cache_timeout, given to cache.set)
\* has run out. A handler being one step, an expiry during a handler is an
\* expiry before or after it. The expiry of a current-weather entry is what
\* is remembered afterwards.
Expire(key) ==
    /\ Idle
    /\ cache_has(cache, key)
    /\ cache' = cache_delete(cache, key)
    /\ prev' = IF key[1] = "weather_data_" THEN [op |-> "expire", key |-> key] ELSE NoPrev
    /\ UNCHANGED last

\* The pending response reaches the client
Respond ==
    /\ ~Idle
    /\ prev' = Remember(last)
    /\ last' = NoCall
    /\ UNCHANGED cache

-----------------------------------------------------------------------------
(* The handler model *)

Init ==
    /\ cache = EmptyCache
    /\ last = NoCall
    /\ prev = NoPrev

\* The answers an action draws: an answer is drawn only from a party the handler
\* consults (the provider on a cache miss, the database after a successful lookup)
NoAnswer == [kind |-> "none"]

WeatherAnswers(c, city) ==
    IF Falsy(city) \/ cache_has(c, get_cache_key(city)) THEN {NoAnswer}
    ELSE WeatherOutcomes(city)

ForecastAnswers(c, city, days) ==
    IF Falsy(city) \/ cache_has(c, forecast_cache_key(city, days)) THEN {NoAnswer}
    ELSE ForecastOutcomes(city)

DbAnswers(c, city, outcome) ==
    IF ~Falsy(city) /\ get_weather(c, city, outcome).result.success THEN DbOutcomes
    ELSE {"ok"}

\* Whether the handlers reject the coordinates before any service is called
CoordinatesRejected(latParam, lonParam) ==
    LET lat == parse_coordinate(latParam)
        lon == parse_coordinate(lonParam)
    IN  ~lat.ok \/ ~lon.ok \/ lat.value = 0 \/ lon.value = 0

NominatimAnswers(latParam, lonParam) ==
    IF CoordinatesRejected(latParam, lonParam) THEN {NoAnswer} ELSE NominatimOutcomes

OwmReverseAnswers(o1) ==
    IF o1 = NoAnswer \/ get_location_from_nominatim(0, 0, o1).success THEN {NoAnswer}
    ELSE OwmReverseOutcomes

FindAnswers(o2) ==
    IF o2 = NoAnswer \/ get_location_from_openweather(0, 0, o2).success THEN {NoAnswer}
    ELSE FindOutcomes

\* The answers drawn for get_weather_by_coordinates_enhanced are one of each
\* kind the handler tells apart. Of the resolver: the detailed provider gives
\* an address with a suburb, gives an address without any place name, or times
\* out; then the coarse provider gives two places, a place without a name or a
\* non-2xx status; then
\* the nearest-station search gives a candidate or a transport error.
NearNominatimAnswers(latParam, lonParam) ==
    { o \in NominatimAnswers(latParam, lonParam) :
          \/ o.kind \in {"none", "timeout"}
          \/ /\ o.kind = "ok"
             /\ "address" \in DOMAIN o.body
             /\ DOMAIN o.body.address \cap {"town", "suburb"} # {"town"} }

NearOwmReverseAnswers(o1) ==
    { o \in OwmReverseAnswers(o1) :
          o.kind \in {"none", "http"} \/ (o.kind = "ok" /\ Len(o.body) \in {1, 2}) }

NearFindAnswers(o2) ==
    { o \in FindAnswers(o2) :
          \/ o.kind \in {"none", "error"}
          \/ o.kind = "ok" /\ DOMAIN o.body # {} /\ Len(o.body.list) = 2 }

\* The weather provider is consulted when a location with a city is resolved
\* and the city is not in the cache: it gives a body with every field, or a
\* 404, or a transport error
NearWeatherAnswers(c, latParam, lonParam, o1, o2, o3) ==
    IF CoordinatesRejected(latParam, lonParam) THEN {NoAnswer}
    ELSE LET location == get_precise_location(parse_coordinate(latParam).value,
                                              parse_coordinate(lonParam).value,
                                              o1, o2, o3).result
         IN  IF ~location.success THEN {NoAnswer}
             ELSE { o \in WeatherAnswers(c, location.city) :
                        \/ o.kind \in {"none", "connection"}
                        \/ o.kind = "http" /\ o.status = 404
                        \/ o.kind = "ok" /\ "deg" \in DOMAIN o.body.wind }

\* The nearby search is consulted after a failed weather lookup, and after a
\* successful one when nearby cities are asked for: it gives one of its
\* bodies, or times out
NearbyAnswers(c, latParam, lonParam, showParam, o1, o2, o3, w) ==
    IF CoordinatesRejected(latParam, lonParam) THEN {NoAnswer}
    ELSE LET location == get_precise_location(parse_coordinate(latParam).value,
                                              parse_coordinate(lonParam).value,
                                              o1, o2, o3).result
         IN  IF ~location.success THEN {NoAnswer}
             ELSE IF get_weather(c, location.city, w).result.success
                     /\ ~parse_show_nearby(showParam)
                  THEN {NoAnswer}
             ELSE {o \in NearbyOutcomes : o.kind \in {"ok", "timeout"}}

\* The nearby search of views.get_nearby_cities is consulted when the
\* parameters are accepted: it gives one of its bodies, or times out
NearbyCitiesAnswers(latParam, lonParam, radiusParam) ==
    IF CoordinatesRejected(latParam, lonParam) \/ ~parse_radius(radiusParam).ok
    THEN {NoAnswer}
    ELSE {o \in NearbyOutcomes : o.kind \in {"ok", "timeout"}}

\* A request is given to the worker when it is idle
Next ==
    \/ /\ Idle
       /\ \E cityParam \in CityParams :
              \E outcome \in WeatherAnswers(cache, Strip(cityParam)) :
                  \E db \in DbAnswers(cache, Strip(cityParam), outcome) :
                      GetWeatherView(cityParam, outcome, db)
    \/ /\ Idle
       /\ \E cityParam \in CityParams, daysParam \in DaysParams :
              \E outcome \in ForecastAnswers(cache, Strip(cityParam),
                                             parse_days(daysParam)) :
                  GetForecastView(cityParam, daysParam, outcome)
    \/ /\ Idle
       /\ \E cityParam \in CityParams, storeOk \in BOOLEAN :
              ClearCacheView(cityParam, storeOk)
    \/ /\ Idle
       /\ \E latParam \in LatParams, lonParam \in LonParams :
              \E o1 \in NominatimAnswers(latParam, lonParam) :
                  \E o2 \in OwmReverseAnswers(o1) :
                      \E o3 \in FindAnswers(o2) :
                          ReverseGeocodeView(latParam, lonParam, o1, o2, o3)
    \/ /\ Idle
       /\ \E latParam \in LatParams, lonParam \in LonParams, showParam \in ShowNearbyParams :
              \E o1 \in NearNominatimAnswers(latParam, lonParam) :
                  \E o2 \in NearOwmReverseAnswers(o1) :
                      \E o3 \in NearFindAnswers(o2) :
                          \E w \in NearWeatherAnswers(cache, latParam, lonParam, o1, o2, o3) :
                              \E n \in NearbyAnswers(cache, latParam, lonParam, showParam,
                                                      o1, o2, o3, w) :
                                  WeatherNearView(latParam, lonParam, showParam,
                                                  o1, o2, o3, w, n)
    \/ /\ Idle
       /\ \E latParam \in LatParams, lonParam \in LonParams, radiusParam \in RadiusParams :
              \E n \in NearbyCitiesAnswers(latParam, lonParam, radiusParam) :
                  NearbyCitiesView(latParam, lonParam, radiusParam, n)
    \/ \E key \in DOMAIN cache : Expire(key)
    \/ Respond

Spec == Init /\ [][Next]_vars

-----------------------------------------------------------------------------
(* Properties of the handler model. `last` is the call being answered, with
   the cache it began with in last.before; `cache` is the cache it left. *)

\* A dict without one key
WithoutField(d, k) == [f \in (DOMAIN d) \ {k} |-> d[f]]

\* The pending call is a lookup of the engine that got past the views' checks
WeatherLookup == last.op = "get_weather" /\ last.engine # <<>>

ForecastLookup == last.op = "get_forecast" /\ last.engine # <<>>

\* The cache key the pending lookup addresses, written out from its arguments
LookupKey ==
    IF last.op = "get_weather"
    THEN <<"weather_data_", Strip(Lower(last.engine[1].city))>>
    ELSE <<"weather_forecast_", Lower(Strip(last.engine[1].city)), last.engine[1].days>>

\* The pending call follows a get_weather for the same city whose provider fetch
\* succeeded, nothing having run in between
SecondOfTwo ==
    /\ prev.op = "get_weather"
    /\ prev.calls # <<>>
    /\ WeatherLookup
    /\ last.args.city = prev.args.city

\* C1: of two consecutive getCurrentWeather calls for a city whose provider
\* fetch succeeds, with no expiry and no clear in between, the first returns
\* from_cache = FALSE, the second returns from_cache = TRUE, and every other
\* field of the second result equals that of the first.
C1_TwoCallsRoundTrip ==
    SecondOfTwo =>
        /\ prev.response.from_cache = FALSE
        /\ last.response.success
        /\ last.response.from_cache = TRUE
        /\ WithoutField(last.response, "from_cache")
               = WithoutField(prev.response, "from_cache")

C1_Witness ==
    /\ SecondOfTwo
    /\ last.response.from_cache = TRUE
    /\ last.response.temperature = 153
    /\ prev.calls[1].answer = "ok"

\* C2: failures are never cached: every entry of the cache store is a result
\* with success = TRUE, and a getCurrentWeather or getForecast call that ends
\* in failure leaves the cache store as it found it.
C2_FailuresNeverCached ==
    /\ \A key \in DOMAIN cache : cache[key].success = TRUE
    /\ (WeatherLookup \/ ForecastLookup) /\ ~last.response.success
           => cache = last.before

C2_Witness ==
    /\ WeatherLookup
    /\ last.calls # <<>>
    /\ last.calls[1].answer = "http"
    /\ last.calls[1].status = 404
    /\ last.response.error = "City not found"
    /\ last.before # EmptyCache

\* C3: a getCurrentWeather or getForecast call that finds its key in the cache
\* returns the cached result with from_cache = TRUE, makes no provider request
\* and writes nothing to the cache; the provider is requested only on a miss.
C3_HitServedFromCache ==
    (WeatherLookup \/ ForecastLookup) =>
        IF LookupKey \in DOMAIN last.before THEN
            /\ last.response = SetField(last.before[LookupKey], "from_cache", TRUE)
            /\ last.calls = <<>>
            /\ cache = last.before
        ELSE
            /\ Len(last.calls) = 1
            /\ last.calls[1].endpoint = IF last.op = "get_weather" THEN "weather"
                                        ELSE "forecast"

C3_Witness ==
    /\ ForecastLookup
    /\ LookupKey \in DOMAIN last.before
    /\ last.response.from_cache = TRUE
    /\ last.calls = <<>>

\* The pending call is a lookup whose provider request got the given answer
Answered(kind) == last.calls # <<>> /\ last.calls[1].answer = kind

\* The error each provider failure is mapped to, according to the mapping of
\* the current-weather lookup
MappedError ==
    IF Answered("http") THEN
        IF last.calls[1].status = 404 THEN "City not found"
        ELSE IF last.calls[1].status = 401 THEN "Invalid API key"
        ELSE "API error: " \o ToString(last.calls[1].status)
    ELSE IF Answered("timeout") THEN "Request timeout"
    ELSE "Connection error"

ProviderFailed == Answered("http") \/ Answered("timeout") \/ Answered("connection")

\* C4: getCurrentWeather maps a provider HTTP 404 to 'City not found', 401 to
\* 'Invalid API key', any other non-2xx status to 'API error: <status>', a
\* request timeout to 'Request timeout' and any other transport failure to
\* 'Connection error', each as a dict with success = FALSE.
C4_WeatherErrorMapping ==
    (WeatherLookup /\ ProviderFailed) =>
        /\ last.response.success = FALSE
        /\ last.response.error = MappedError

C4_Witness ==
    /\ WeatherLookup
    /\ Answered("http")
    /\ last.calls[1].status = 500
    /\ last.response.error = "API error: 500"

C7_DaysClamped ==
    /\ last.op = "get_forecast" =>
           LET p == last.args.days
               parsed == IF p = Absent THEN [ok |-> FALSE] ELSE ParseInt(p)
               inRange == parsed.ok /\ parsed.value >= 1 /\ parsed.value <= 5
           IN  /\ Falsy(Strip(last.args.city)) \/ ForecastLookup
               /\ ForecastLookup =>
                      /\ last.engine[1].days = IF inRange THEN parsed.value ELSE 5
                      /\ last.engine[1].days \in 1..5
    /\ \A key \in DOMAIN cache : key[1] = "weather_forecast_" => key[3] \in 1..5

C7_Witness ==
    /\ ForecastLookup
    /\ last.args.days = <<"6">>
    /\ last.engine[1].days = 5
    /\ last.response.success
    /\ <<"weather_forecast_", <<"p", "a">>, 2>> \in DOMAIN cache

\* C8: clearCache(city) with a city given deletes that city's current-weather
\* key and nothing else: every forecast key (that city's included) and every
\* other city's current-weather key stays, with its value.
C8_ClearOneCity ==
    (last.op = "clear_cache" /\ ~Falsy(Strip(last.args.city))) =>
        LET key == <<"weather_data_", Lower(Strip(last.args.city))>>
        IN  /\ last.status = 200 => key \notin DOMAIN cache
            /\ DOMAIN cache \subseteq DOMAIN last.before
            /\ \A k \in (DOMAIN last.before) \ {key} :
                   k \in DOMAIN cache /\ cache[k] = last.before[k]

C8_Witness ==
    /\ last.op = "clear_cache"
    /\ last.args.city = <<" ", "p", "a">>
    /\ last.status = 200
    /\ <<"weather_data_", <<"p", "a">>>> \in DOMAIN last.before
    /\ <<"weather_data_", <<"p", "a">>>> \notin DOMAIN cache
    /\ <<"weather_data_", <<"l", "o">>>> \in DOMAIN cache
    /\ <<"weather_forecast_", <<"p", "a">>, 2>> \in DOMAIN cache

\* C9: clearCache with the city omitted (absent, empty or whitespace-only at
\* the endpoint) flushes the whole cache store: no current-weather key and no
\* forecast key is left.
C9_ClearAll ==
    (last.op = "clear_cache" /\ Falsy(Strip(last.args.city)) /\ last.status = 200) =>
        cache = EmptyCache

C9_Witness ==
    /\ last.op = "clear_cache"
    /\ last.args.city = <<" ">>
    /\ last.status = 200
    /\ <<"weather_data_", <<"p", "a">>>> \in DOMAIN last.before
    /\ <<"weather_forecast_", <<"l", "o">>, 5>> \in DOMAIN last.before
    /\ cache = EmptyCache

\* The pending call resolved a location
LocationLookup == last.op = "reverse_geocode" /\ last.engine # <<>>

StrategyOrder == <<"nominatim", "owm_reverse", "find">>

StrategySource == <<"OpenStreetMap", "OpenWeatherMap", "Weather Stations">>

\* C10: resolveLocation queries the detailed provider, the coarse provider and
\* the nearest-station search in that order; a strategy is queried only if
\* every earlier one failed, the first success is what is returned, and
\* nothing is queried after a success.
C10_StrategiesInOrder ==
    LocationLookup =>
        LET n == Len(last.calls)
        IN  /\ n \in 1..3
            /\ \A k \in 1..n : last.calls[k].endpoint = StrategyOrder[k]
            /\ \A k \in 1..(n - 1) : ~last.calls[k].success
            /\ last.calls[n].success =>
                   last.response.success /\ last.response.source = StrategySource[n]
            /\ ~last.calls[n].success => n = 3 /\ ~last.response.success

C10_Witness ==
    /\ LocationLookup
    /\ Len(last.calls) = 2
    /\ ~last.calls[1].success
    /\ last.calls[2].success
    /\ last.response.source = "OpenWeatherMap"

\* The pending call is a weather-by-coordinates request
NearCall == last.op = "weather_near"

\* What its lat and lon parameters stand for, in tenths of a degree: a
\* parameter not sent stands for 0
SentLat == parse_coordinate(last.args.lat)

SentLon == parse_coordinate(last.args.lon)

\* The HTTP requests a call made, by endpoint
Endpoints == {last.calls[i].endpoint : i \in DOMAIN last.calls}

\* C16: weatherNear(0, 0, includeNearby) returns the MissingCoordinates error
\* and calls nothing: no geolocation strategy, no weather provider, no nearby
\* search, no service and no cache write.
C16_ZeroZeroRejected ==
    (NearCall /\ SentLat.ok /\ SentLon.ok /\ SentLat.value = 0 /\ SentLon.value = 0) =>
        /\ last.status = 400
        /\ last.response.success = FALSE
        /\ last.response.error = "Missing coordinates"
        /\ last.calls = <<>>
        /\ last.engine = <<>>
        /\ cache = last.before

C16_Witness ==
    /\ NearCall
    /\ last.args.lat = <<"0">>
    /\ last.args.lon = <<"0">>
    /\ last.args.show_nearby = <<"T", "r", "u", "e">>
    /\ last.response.error = "Missing coordinates"
    /\ last.before # EmptyCache

\* C17 as stated: weatherNear rejects with MissingCoordinates only if both
\* coordinates are zero or unset; a request in which exactly one coordinate is
\* zero is not rejected and goes on to the location resolution.
C17_OneZeroProceeds ==
    (NearCall /\ SentLat.ok /\ SentLon.ok) =>
        /\ (last.status = 400 /\ last.engine = <<>>) =>
               SentLat.value = 0 /\ SentLon.value = 0
        /\ (SentLat.value = 0) # (SentLon.value = 0) =>
               /\ last.engine # <<>>
               /\ last.engine[1].fn = "get_precise_location"

\* The location was resolved and the weather lookup made
Looked == NearCall /\ Len(last.engine) >= 2

\* What the services returned to the handler
LocationReturned == last.engine[1].returned

WeatherReturned == last.engine[2].returned

NearbyReturned == last.engine[3].returned

\* C18: in weatherNear, when the location is resolved and the weather lookup
\* fails, a nearby search within 50 km is made; if it finds at least one
\* candidate the response is the 'alternatives' failure with at most 10
\* suggestions, the nearest ones, and a top suggestion naming the nearest
\* candidate (the one of least distance among the entries found); if it fails
\* or finds none the weather error is returned as it is.
C18_AlternativesOnWeatherFailure ==
    (Looked /\ ~WeatherReturned.success) =>
        /\ Len(last.engine) = 3
        /\ last.engine[3].fn = "get_nearby_cities"
        /\ last.engine[3].radius = 50
        /\ last.calls[Len(last.calls)].endpoint = "nearby"
        /\ IF NearbyReturned.success /\ NearbyReturned.count > 0 THEN
               LET found == NearbyReturned.cities
                   shown == last.response.nearby_cities
               IN  /\ last.status = 404
                   /\ last.response.success = FALSE
                   /\ Len(shown) <= 10
                   /\ Len(shown) = IF Len(found) < 10 THEN Len(found) ELSE 10
                   /\ \A i \in DOMAIN shown : shown[i] = found[i]
                   /\ \A i \in DOMAIN found : found[i].distance >= shown[1].distance
                   /\ last.response.suggestion = <<"Try: ", shown[1].city>>
                   /\ last.response.location_detected = LocationReturned
           ELSE
               /\ last.response = WeatherReturned
               /\ last.status = 400

C18_Witness ==
    /\ Looked
    /\ ~WeatherReturned.success
    /\ WeatherReturned.error = "City not found"
    /\ NearbyReturned.success
    /\ NearbyReturned.count = 13
    /\ Len(last.response.nearby_cities) = 10
    /\ last.response.suggestion = <<"Try: ", <<"A", "b">>>>

\* Nearby cities were asked for
IncludeNearby ==
    /\ last.args.show_nearby # Absent
    /\ Lower(last.args.show_nearby) = <<"t", "r", "u", "e">>

\* C19: in weatherNear, on weather success the response is the weather result
\* with the location metadata (accuracy, source, suburb, state, display name)
\* and the query coordinates laid over it; a nearby search, within 30 km, is
\* made if and only if includeNearby is true; at most 5 cities, the nearest
\* found, are attached, and a failed nearby search leaves the response a
\* success without a nearby list.
C19_EnrichedOnWeatherSuccess ==
    (Looked /\ WeatherReturned.success) =>
        /\ last.status = 200
        /\ \A k \in DOMAIN WeatherReturned : last.response[k] = WeatherReturned[k]
        /\ last.response.detection_accuracy = LocationReturned.accuracy
        /\ last.response.detection_source = LocationReturned.source
        /\ last.response.suburb = GetField(LocationReturned, "suburb", <<>>)
        /\ last.response.state = GetField(LocationReturned, "state", <<>>)
        /\ last.response.display_name = GetField(LocationReturned, "display_name", <<>>)
        /\ last.response.coordinates = [lat |-> SentLat.value, lon |-> SentLon.value]
        /\ Len(last.engine) = IF IncludeNearby THEN 3 ELSE 2
        /\ ("nearby" \in Endpoints) <=> IncludeNearby
        /\ IncludeNearby =>
               /\ last.engine[3].fn = "get_nearby_cities"
               /\ last.engine[3].radius = 30
               /\ ("nearby_cities" \in DOMAIN last.response) <=> NearbyReturned.success
               /\ NearbyReturned.success =>
                      LET found == NearbyReturned.cities
                          shown == last.response.nearby_cities
                      IN  /\ Len(shown) <= 5
                          /\ Len(shown) = IF Len(found) < 5 THEN Len(found) ELSE 5
                          /\ \A i \in DOMAIN shown : shown[i] = found[i]
        /\ ~IncludeNearby => "nearby_cities" \notin DOMAIN last.response

C19_Witness ==
    /\ Looked
    /\ WeatherReturned.success
    /\ last.args.show_nearby = <<"T", "r", "u", "e">>
    /\ NearbyReturned.success
    /\ NearbyReturned.count = 8
    /\ Len(last.response.nearby_cities) = 5
    /\ last.response.suburb = <<"M", "o">>
    /\ last.response.temperature = 153
    /\ last.response.coordinates = [lat |-> 480, lon |-> 20]

\* C20: in weatherNear, when the Geolocation Resolver fails its failure value
\* is the response, and neither the Weather Retrieval Engine nor the cache
\* store nor the nearby search is used.
C20_ResolverFailurePropagated ==
    (NearCall /\ last.engine # <<>> /\ ~LocationReturned.success) =>
        /\ last.response = LocationReturned
        /\ last.status = 400
        /\ Len(last.engine) = 1
        /\ Endpoints \subseteq {"nominatim", "owm_reverse", "find"}
        /\ cache = last.before

C20_Witness ==
    /\ NearCall
    /\ last.engine # <<>>
    /\ last.response = LocationNotFound
    /\ Len(last.calls) = 3
    /\ last.before # EmptyCache

\* The weather lookup a pending call made through the engine, if it made one
LookupMade == WeatherLookup \/ Looked

LookupResult == IF WeatherLookup THEN last.response ELSE WeatherReturned

\* The query-log records of the pending call
QueryLogRecords == {i \in DOMAIN last.logged : last.logged[i].table = "WeatherQuery"}

\* C21 as stated: every successful weather lookup served through
\* get-current-weather or through weather-by-coordinates emits exactly one
\* query-log record, whose cache-hit flag equals the result's from_cache, and
\* a failed lookup emits none.
C21_EveryLookupLogged ==
    LookupMade =>
        IF LookupResult.success THEN
            /\ Cardinality(QueryLogRecords) = 1
            /\ \A i \in QueryLogRecords :
                   last.logged[i].from_cache = LookupResult.from_cache
        ELSE QueryLogRecords = {}

\* C22: a failure of the query-log write or of the per-city counter update
\* does not fail the lookup: whenever get-current-weather hands records to the
\* database, whether they are saved or not, the response is status 200 with
\* the successful weather payload, which is the entry of the cache.
C22_LogFailureHarmless ==
    (WeatherLookup /\ last.logged # <<>>) =>
        /\ last.status = 200
        /\ last.response.success
        /\ cache_has(cache, LookupKey)
        /\ WithoutField(last.response, "from_cache")
               = WithoutField(cache[LookupKey], "from_cache")
        /\ last.response.from_cache = cache_has(last.before, LookupKey)

C22_Witness ==
    /\ WeatherLookup
    /\ last.logged # <<>>
    /\ last.logged[1].saved = FALSE
    /\ last.status = 200
    /\ last.response.from_cache = FALSE
    /\ last.calls # <<>>

\* C23 as stated: every response with success = FALSE has HTTP status 400,
\* except that clear-cache answers a store failure with status 500; no other
\* status is used for a failure and no failure is returned with status 200.
C23_FailureStatuses ==
    (~Idle /\ ~last.response.success) =>
        \/ last.status = 400
        \/ last.status = 500 /\ last.op = "clear_cache"

\* The store dropped the entry of the pending lookup's city, and nothing ran
\* between the expiry and the lookup
JustExpired == prev.op = "expire" /\ prev.key = LookupKey

\* C25: the engine makes no TTL check of its own. Once the cache store has
\* expired an entry, the next getCurrentWeather for the city is a miss: the
\* provider is called once, the result is not marked from_cache, and a
\* successful result is stored again; while the store holds the entry the
\* lookup is a hit that calls no provider and leaves the cache as it was.
C25_ExpiredIsMiss ==
    WeatherLookup =>
        /\ JustExpired =>
               /\ Len(last.calls) = 1
               /\ last.calls[1].endpoint = "weather"
               /\ "from_cache" \in DOMAIN last.response => ~last.response.from_cache
               /\ IF last.response.success
                  THEN /\ LookupKey \in DOMAIN cache
                       /\ cache[LookupKey] = WithoutField(last.response, "from_cache")
                  ELSE cache = last.before
        /\ LookupKey \in DOMAIN last.before =>
               /\ last.calls = <<>>
               /\ last.response = SetField(last.before[LookupKey], "from_cache", TRUE)
               /\ cache = last.before

C25_Witness ==
    /\ WeatherLookup
    /\ JustExpired
    /\ last.response.success
    /\ last.response.from_cache = FALSE
    /\ LookupKey \in DOMAIN cache
    /\ last.before # EmptyCache

\* C26: forecast entries are cached per (city, days). A getForecast whose
\* (city, days) entry is not in the cache calls the provider, whatever other
\* forecast of the city is cached; and no getForecast changes an entry other
\* than its own: the city's forecasts for other values of days and its
\* current-weather entry stay as they were.
C26_ForecastPerCityDays ==
    ForecastLookup =>
        /\ \A k \in (DOMAIN last.before) \ {LookupKey} :
               k \in DOMAIN cache /\ cache[k] = last.before[k]
        /\ DOMAIN cache \subseteq (DOMAIN last.before) \cup {LookupKey}
        /\ IF LookupKey \in DOMAIN last.before
           THEN cache = last.before /\ last.calls = <<>>
           ELSE /\ Len(last.calls) = 1
                /\ last.calls[1].endpoint = "forecast"
                /\ "from_cache" \in DOMAIN last.response => ~last.response.from_cache

C26_Witness ==
    /\ ForecastLookup
    /\ LookupKey \notin DOMAIN last.before
    /\ \E k \in DOMAIN last.before :
           /\ Len(k) = 3
           /\ k[2] = LookupKey[2]
           /\ k[3] # LookupKey[3]
    /\ <<"weather_data_", LookupKey[2]>> \in DOMAIN last.before
    /\ last.response.success
    /\ LookupKey \in DOMAIN cache

\* A city name as the cache sees it
NormalName(text) == Lower(Strip(text))

\* The pending call names the city of the successful getCurrentWeather answered
\* just before it, nothing having run in between
SameCityAsBefore ==
    /\ prev.op = "get_weather"
    /\ "city" \in DOMAIN last.args
    /\ NormalName(last.args.city) = NormalName(prev.args.city)

\* C27: the current-weather cache key depends only on the lower-cased, trimmed
\* city name. After a successful getCurrentWeather, a getCurrentWeather whose
\* name differs at most in letter case or surrounding whitespace is a hit
\* with the same payload, and a clearCache with such a name deletes the entry.
C27_NormalisedKey ==
    SameCityAsBefore =>
        /\ WeatherLookup =>
               /\ last.calls = <<>>
               /\ last.response = SetField(prev.response, "from_cache", TRUE)
               /\ cache = last.before
        /\ (last.op = "clear_cache" /\ last.status = 200) =>
               /\ <<"weather_data_", NormalName(prev.args.city)>> \in DOMAIN last.before
               /\ <<"weather_data_", NormalName(prev.args.city)>> \notin DOMAIN cache

C27_Witness ==
    /\ SameCityAsBefore
    /\ prev.calls # <<>>
    /\ prev.args.city = <<"P", "a">>
    /\ last.args.city = <<" ", "p", "a">>
    /\ WeatherLookup
    /\ last.response.from_cache

\* The provider requests of the pending call sent from one place of the code
RequestsTo(endpoints) ==
    Cardinality({i \in DOMAIN last.calls : last.calls[i].endpoint \in endpoints})

NamelessLocation ==
    /\ NearCall
    /\ last.engine # <<>>
    /\ LocationReturned.success
    /\ LocationReturned.city = None

\* C32: resolveLocation can succeed with no city name (a detailed address
\* with none of the seven priority fields, a first coarse candidate without a
\* name). The strategies after the one that succeeded are then not tried;
\* weatherNear hands the absent city to the weather engine, which returns the
\* 'City name is required' failure without a provider request or a cache
\* change; and the request ends on the failure path: the 50 km nearby search,
\* then the alternatives response (404) or the engine's failure (400).
C32_NamelessLocation ==
    NamelessLocation =>
        /\ LocationReturned.source = "OpenStreetMap" => Endpoints \subseteq {"nominatim", "nearby"}
        /\ LocationReturned.source = "OpenWeatherMap" =>
               Endpoints \subseteq {"nominatim", "owm_reverse", "nearby"}
        /\ Len(last.engine) = 3
        /\ last.engine[2].fn = "get_weather"
        /\ last.engine[2].city = None
        /\ WeatherReturned.success = FALSE
        /\ WeatherReturned.error = "City name is required"
        /\ "weather" \notin Endpoints
        /\ cache = last.before
        /\ last.engine[3].fn = "get_nearby_cities"
        /\ last.engine[3].radius = 50
        /\ last.response.success = FALSE
        /\ IF NearbyReturned.success /\ GetField(NearbyReturned, "cities", <<>>) # <<>>
           THEN last.status = 404 /\ "nearby_cities" \in DOMAIN last.response
           ELSE last.status = 400 /\ last.response = WeatherReturned

C32_Witness ==
    /\ NamelessLocation
    /\ LocationReturned.source = "OpenWeatherMap"
    /\ Len(last.calls) = 3
    /\ last.status = 404
    /\ last.before # EmptyCache

-----------------------------------------------------------------------------
(* The forecast reduction on its own: get_forecast on an empty cache, for
   every days in 1..5 and every provider list of the bounds below. *)

\* Longest provider list enumerated
MaxItems == 4

\* The dt values of the entries: two on the first date, then one per date
DtValues == {0, 10800, 86400, 172800, 259200}

\* A list longer than any days value has dates: eight entries on seven dates
LongList == <<0, 10800, 86400, 172800, 259200, 345600, 432000, 518400>>

DtLists == UNION {[1..n -> DtValues] : n \in 0..MaxItems} \cup {LongList}

ForecastBody(dts) ==
    [city |-> [name |-> <<"P", "a">>, country |-> "XX"],
     list |-> [i \in DOMAIN dts |-> ForecastItem(dts[i], 1534)]]

ForecastInit ==
    /\ cache = EmptyCache
    /\ prev = NoPrev
    /\ last \in {[op |-> "forecast_input", dts |-> dts, days |-> days] :
                     dts \in DtLists, days \in 1..5}

\* get_forecast is applied to the input drawn
ForecastApply ==
    /\ last.op = "forecast_input"
    /\ \E r \in {get_forecast(cache, <<"P", "a">>, last.days,
                              [kind |-> "ok", body |-> ForecastBody(last.dts)])} :
           last' = [op |-> "forecast_output", dts |-> last.dts, days |-> last.days,
                    result |-> r.result]
    /\ UNCHANGED <<cache, prev>>

ForecastNext == ForecastApply

ForecastSpec == ForecastInit /\ [][ForecastNext]_vars

\* C6: for every days in 1..5 and every provider list, a successful
\* getForecast(city, days) holds at most days entries, no two of them on the
\* same calendar date, and forecast_count is the number of entries.
C6_ForecastShape ==
    last.op = "forecast_output" =>
        LET forecasts == last.result.forecasts
        IN  /\ last.result.success
            /\ Len(forecasts) <= last.days
            /\ \A i, j \in DOMAIN forecasts :
                   i # j => DateOf(forecasts[i].date) # DateOf(forecasts[j].date)
            /\ last.result.forecast_count = Len(forecasts)

C6_Witness ==
    /\ last.op = "forecast_output"
    /\ last.days = 2
    /\ last.dts = <<0, 10800, 86400, 172800>>
    /\ Len(last.result.forecasts) = 2
    /\ last.result.forecasts[2].date = 86400

\* The entries of a provider list that are the first of their calendar date
FirstOfDate(dts) ==
    {i \in DOMAIN dts : \A j \in 1..(i - 1) : DateOf(dts[j]) # DateOf(dts[i])}

-----------------------------------------------------------------------------
(* The resolver on its own: get_precise_location at the point (48.0, 2.0), for
   every answer of the three providers, and for every address the detailed
   provider can give over the fields the city is taken from. *)

\* The address fields the city is taken from, most specific first
PriorityFields ==
    <<"suburb", "neighbourhood", "town", "city", "municipality", "county", "state">>

\* The value an address holds under each of these fields, when it is not empty
AddressValue ==
    [suburb |-> <<"S", "u">>, neighbourhood |-> <<"N", "e">>, town |-> <<"T", "o">>,
     city |-> <<"C", "i">>, municipality |-> <<"M", "u">>, county |-> <<"C", "o">>,
     state |-> <<"S", "t">>]

\* Every address in which each of the fields is absent, empty or set
Addresses ==
    { [f \in {PriorityFields[i] : i \in {j \in 1..7 : c[j] # "absent"}} |->
           IF c[CHOOSE i \in 1..7 : PriorityFields[i] = f] = "empty" THEN <<>>
           ELSE AddressValue[f]] : c \in [1..7 -> {"absent", "empty", "set"}] }

GeoNominatimOutcomes ==
    NominatimOutcomes \cup {[kind |-> "ok", body |-> [address |-> a]] : a \in Addresses}

GeoInit ==
    /\ cache = EmptyCache
    /\ prev = NoPrev
    /\ \E o1 \in GeoNominatimOutcomes :
           \E o2 \in OwmReverseAnswers(o1) :
               \E o3 \in FindAnswers(o2) :
                   last = [op |-> "geo_input", o1 |-> o1, o2 |-> o2, o3 |-> o3]

\* get_precise_location is applied to the answers drawn
GeoApply ==
    /\ last.op = "geo_input"
    /\ \E r \in {get_precise_location(480, 20, last.o1, last.o2, last.o3)} :
           last' = [op |-> "geo_output", o1 |-> last.o1, o2 |-> last.o2, o3 |-> last.o3,
                    result |-> r.result, calls |-> r.calls]
    /\ UNCHANGED <<cache, prev>>

GeoNext == GeoApply

GeoSpec == GeoInit /\ [][GeoNext]_vars

\* The location resolved and the requests made for it
Resolved == last.op = "geo_output"

\* The fields only the detailed provider's result holds
DetailedFields == {"suburb", "town", "city_district", "display_name"}

\* The detailed provider failed and the coarse provider succeeded
CoarseAfterDetailed ==
    /\ Resolved
    /\ Len(last.calls) = 2
    /\ ~last.calls[1].success
    /\ last.calls[2].success

\* C11: when the detailed provider fails and the coarse provider succeeds, the
\* result of resolveLocation names the coarse provider as its source, has
\* accuracy medium, and holds no suburb, town, city_district or display_name.
C11_CoarseResultOnly ==
    CoarseAfterDetailed =>
        /\ last.result.success
        /\ last.result.source = "OpenWeatherMap"
        /\ last.result.accuracy = "medium"
        /\ DOMAIN last.result \cap DetailedFields = {}
        /\ last.result.city = GetField(last.o2.body[1], "name", None)

C11_Witness ==
    /\ CoarseAfterDetailed
    /\ last.o1.kind = "ok"
    /\ "display_name" \in DOMAIN last.o1.body
    /\ last.result.source = "OpenWeatherMap"
    /\ last.result.city = <<"P", "a">>

\* The answer is one strategy k cannot use: a timeout, a transport error, a
\* non-2xx status, a body that is no JSON, or a body that is empty or lacks
\* the address (k = 1), the places (k = 2), the candidates or the first
\* candidate's coordinates (k = 3)
Unusable(k, o) ==
    \/ o.kind \in FailureKinds
    \/ /\ o.kind = "ok"
       /\ \/ DOMAIN o.body = {}
          \/ k = 1 /\ "address" \notin DOMAIN o.body
          \/ /\ k = 3
             /\ \/ DOMAIN o.body.list = {}
                \/ "coord" \notin DOMAIN o.body.list[1]

\* The answers the strategies queried got, in the order of the queries
AnswersGot == <<last.o1, last.o2, last.o3>>

\* C12: resolveLocation always returns a dict; a strategy whose request ends in
\* a timeout, a transport error, a non-2xx status or an empty or malformed body
\* has failed and the next strategy is queried; the result is the
\* LocationNotFound error exactly when all three strategies failed.
C12_FailuresFallThrough ==
    Resolved =>
        /\ "success" \in DOMAIN last.result
        /\ \A k \in DOMAIN last.calls :
               Unusable(k, AnswersGot[k]) =>
                   /\ ~last.calls[k].success
                   /\ k < 3 => Len(last.calls) > k
        /\ (last.result = LocationNotFound)
               <=> (Len(last.calls) = 3 /\ \A k \in 1..3 : ~last.calls[k].success)
        /\ ~last.result.success => last.result = LocationNotFound

C12_Witness ==
    /\ Resolved
    /\ last.o1.kind = "timeout"
    /\ last.o2.kind = "http"
    /\ last.o3.kind = "ok"
    /\ last.o3.body = EmptyDict
    /\ last.result = LocationNotFound

\* The detailed provider answered with an address
DetailedSuccess ==
    /\ Resolved
    /\ last.o1.kind = "ok"
    /\ "address" \in DOMAIN last.o1.body

\* The places in the priority order whose field the address holds, not empty
PresentFields(address) ==
    {i \in 1..7 : PriorityFields[i] \in DOMAIN address /\ address[PriorityFields[i]] # <<>>}

\* C13: on a detailed-provider success the city resolved is the first address
\* field that is present and not empty in the order suburb, neighbourhood,
\* town, city, municipality, county, state (no city when there is none), and
\* the result has accuracy high and the detailed provider as its source.
C13_MostSpecificField ==
    DetailedSuccess =>
        LET address == last.o1.body.address
            present == PresentFields(address)
        IN  /\ last.result.success
            /\ last.result.accuracy = "high"
            /\ last.result.source = "OpenStreetMap"
            /\ Len(last.calls) = 1
            /\ present # {} =>
                   last.result.city
                       = address[PriorityFields[CHOOSE i \in present :
                                                    \A j \in present : i <= j]]
            /\ present = {} => Falsy(last.result.city)

C13_Witness ==
    /\ DetailedSuccess
    /\ DOMAIN last.o1.body.address = {"suburb", "town", "city", "state"}
    /\ last.o1.body.address.suburb = <<>>
    /\ last.o1.body.address.town = <<"T", "o">>
    /\ last.result.city = <<"T", "o">>

-----------------------------------------------------------------------------
(* The nearby search on its own: get_nearby_cities at the point (48.0, 2.0),
   for every radius and every provider answer of the bounds below. *)

\* Longest provider list enumerated
MaxCandidates == 3

\* The candidates the lists are made of, at 0 m, 13383 m, 13375 m, 31478 m and
\* 111195 m of the point, and one without coordinates
CandidateChoices ==
    { Candidate(<<"O", "r">>, 480, 20), Candidate(<<"Y", "a">>, 479, 21),
      Candidate(<<"P", "a">>, 481, 21), Candidate(<<"E", "t">>, 482, 23),
      Candidate(<<"L", "o">>, 490, 20), CandidateNoCoord }

CandidateLists ==
    UNION {[1..n -> CandidateChoices] : n \in 0..MaxCandidates} \cup {LongCandidates}

\* The radius as the caller gives it
Radii == {-1, 0, 13, 30, 50}

NearbyInputs ==
    {[kind |-> "ok", body |-> [list |-> l]] : l \in CandidateLists}
        \cup NearbyOutcomes \cup {[kind |-> "ok", body |-> EmptyDict]}

NearbyInit ==
    /\ cache = EmptyCache
    /\ prev = NoPrev
    /\ last \in {[op |-> "nearby_input", radius |-> radius, outcome |-> outcome] :
                     radius \in Radii, outcome \in NearbyInputs}

\* get_nearby_cities is applied to the input drawn
NearbyApply ==
    /\ last.op = "nearby_input"
    /\ \E r \in {get_nearby_cities(480, 20, last.radius, last.outcome)} :
           last' = [op |-> "nearby_output", radius |-> last.radius,
                    outcome |-> last.outcome, result |-> r]
    /\ UNCHANGED <<cache, prev>>

NearbyNext == NearbyApply

NearbySpec == NearbyInit /\ [][NearbyNext]_vars

\* The provider answered with a list of candidates, each with coordinates
ListAnswered ==
    /\ last.op = "nearby_output"
    /\ last.outcome.kind = "ok"
    /\ "list" \in DOMAIN last.outcome.body
    /\ \A i \in DOMAIN last.outcome.body.list :
           "coord" \in DOMAIN last.outcome.body.list[i]

\* The places in the provider's list of the candidates within the radius
InRange ==
    LET list == last.outcome.body.list
    IN  {i \in DOMAIN list :
             DistanceTable[<<480, 20, list[i].coord.lat, list[i].coord.lon>>]
                 <= 1000 * last.radius}

\* The entry is the one made of the candidate
EntryOf(entry, candidate) ==
    /\ entry.city = candidate.name
    /\ entry.latitude = candidate.coord.lat
    /\ entry.longitude = candidate.coord.lon

\* C14: a successful nearbyCities(lat, lon, radiusKm) result is sorted
\* ascending by the distance of its entries, every entry's distance is at most
\* radiusKm, every candidate within the radius is in it (and nothing else),
\* and count is the number of entries.
C14_NearbySortedWithinRadius ==
    (last.op = "nearby_output" /\ last.result.success) =>
        LET cities == last.result.cities
            list == last.outcome.body.list
        IN  /\ ListAnswered
            /\ \A i, j \in DOMAIN cities :
                   i < j => cities[i].distance <= cities[j].distance
            /\ \A i \in DOMAIN cities : cities[i].distance <= 10 * last.radius
            /\ \A i \in DOMAIN cities : \E k \in InRange : EntryOf(cities[i], list[k])
            /\ \A k \in InRange :
                   Cardinality({i \in DOMAIN cities : EntryOf(cities[i], list[k])})
                       = Cardinality({j \in InRange : list[j] = list[k]})
            /\ Len(cities) = Cardinality(InRange)
            /\ last.result.count = Len(cities)

C14_Witness ==
    /\ last.op = "nearby_output"
    /\ last.result.success
    /\ last.radius = 30
    /\ last.outcome.body.list = << Candidate(<<"E", "t">>, 482, 23),
                                    Candidate(<<"Y", "a">>, 479, 21),
                                    Candidate(<<"O", "r">>, 480, 20) >>
    /\ last.result.count = 2
    /\ last.result.cities[1].city = <<"O", "r">>
    /\ last.result.cities[2].distance = 134

\* C15 as stated: nearbyCities returns a success with an empty list whenever
\* the provider answers without a transport or parse failure and yields no
\* candidate within range, and an error only on a transport or parse failure
\* (a candidate without coordinates counted as a parse failure).
C15_EmptyIsSuccess ==
    last.op = "nearby_output" =>
        LET parsed == /\ last.outcome.kind = "ok"
                      /\ "list" \in DOMAIN last.outcome.body =>
                             \A i \in DOMAIN last.outcome.body.list :
                                 "coord" \in DOMAIN last.outcome.body.list[i]
        IN  /\ ~last.result.success => ~parsed
            /\ (parsed /\ ("list" \in DOMAIN last.outcome.body => InRange = {})) =>
                   /\ last.result.success
                   /\ last.result.cities = <<>>

\* C15, amended: nearbyCities returns a success with an empty list whenever
\* the provider's body holds a list of candidates (empty or not) none of which
\* is within range; it returns the error 'Failed to find nearby cities' on a
\* transport or parse failure and on a candidate without coordinates, and also
\* an error, 'No nearby cities found', when the body is empty or holds no
\* list of candidates.
C15_EmptyListIsSuccess ==
    last.op = "nearby_output" =>
        /\ (ListAnswered /\ InRange = {}) =>
               /\ last.result.success
               /\ last.result.cities = <<>>
               /\ last.result.count = 0
        /\ ListAnswered => last.result.success
        /\ (last.outcome.kind = "ok" /\ "list" \notin DOMAIN last.outcome.body) =>
               /\ ~last.result.success
               /\ last.result.error = "No nearby cities found"
        /\ (~ListAnswered /\ (last.outcome.kind = "ok" =>
                                  "list" \in DOMAIN last.outcome.body)) =>
               /\ ~last.result.success
               /\ last.result.error = "Failed to find nearby cities"

C15_Witness ==
    /\ last.op = "nearby_output"
    /\ last.radius = 30
    /\ last.outcome.kind = "ok"
    /\ last.outcome.body = [list |-> << Candidate(<<"L", "o">>, 490, 20) >>]
    /\ last.result.success
    /\ last.result.cities = <<>>


-----------------------------------------------------------------------------
(* The engine's get_weather on its own: every city argument below, on a cache
   without and with the city's entry, for every answer of the provider. *)

\* The city arguments: None, empty, blank, and two spellings of a name
EngineCities ==
    {None, <<>>, <<" ">>, <<" ", " ">>, <<"P", "a">>, <<" ", "p", "a", " ">>}

\* The caches: empty, and holding the entry of a successful lookup of 'Pa'
EngineCaches ==
    {EmptyCache} \cup
        {get_weather(EmptyCache, <<"P", "a">>, o).cache :
             o \in {a \in WeatherOutcomes(<<"P", "a">>) : a.kind = "ok"}}

EngineInit ==
    /\ cache \in EngineCaches
    /\ prev = NoPrev
    /\ last \in {[op |-> "engine_input", city |-> city, outcome |-> outcome] :
                     city \in EngineCities,
                     outcome \in WeatherOutcomes(<<"P", "a">>)}

\* get_weather is applied to the input drawn
EngineApply ==
    /\ last.op = "engine_input"
    /\ \E r \in {get_weather(cache, last.city, last.outcome)} :
           /\ last' = [op |-> "engine_output", city |-> last.city,
                       outcome |-> last.outcome, result |-> r.result,
                       calls |-> r.calls, reads |-> r.reads, before |-> cache]
           /\ cache' = r.cache
    /\ UNCHANGED prev

EngineNext == EngineApply

EngineSpec == EngineInit /\ [][EngineNext]_vars

\* The city argument is None, empty or blank
BlankCity == Falsy(last.city) \/ \A i \in DOMAIN last.city : last.city[i] = " "

\* C28: getCurrentWeather always returns a dict with 'success'. For a None,
\* empty or whitespace-only city it is the 'City name is required' failure,
\* returned without a cache read, a provider request or a cache write; and
\* on a miss every answer of the provider that is not a well-formed 2xx,
\* an answer whose body cannot be read included, gives a failure with
\* success = FALSE and an error, and leaves the cache as it was.
C28_NeverRaises ==
    last.op = "engine_output" =>
        /\ "success" \in DOMAIN last.result
        /\ last.result.success \in BOOLEAN
        /\ BlankCity =>
               /\ last.result.success = FALSE
               /\ last.result.error = "City name is required"
               /\ last.reads = <<>>
               /\ last.calls = <<>>
               /\ cache = last.before
        /\ (last.calls # <<>> /\ last.outcome.kind # "ok") =>
               /\ last.result.success = FALSE
               /\ "error" \in DOMAIN last.result
               /\ cache = last.before
        /\ ~BlankCity => Len(last.reads) = 1

C28_Witness ==
    /\ last.op = "engine_output"
    /\ last.city = <<" ", "p", "a", " ">>
    /\ last.outcome.kind = "malformed"
    /\ last.calls # <<>>
    /\ last.result.success = FALSE
    /\ last.result.error = "Failed to fetch weather data"


-----------------------------------------------------------------------------
(* Concurrent requests: NumRequests workers run get_weather for the same city
   on a cache that does not hold it. The engine takes no lock; its accesses
   to the shared store are the atomic cache.get and cache.set, so a request
   is three steps: the cache read, the provider fetch, the store and return. *)

\* Requests running at once
NumRequests == 3

Requests == 1..NumRequests

\* The city all of them ask for
StampedeCity == <<"P", "a">>

StampedeKey == get_cache_key(StampedeCity)

\* The provider's answers to them: two different bodies, a 404, an unreadable body
StampedeOutcomes ==
    {o \in WeatherOutcomes(StampedeCity) :
         \/ o.kind \in {"ok", "malformed"}
         \/ o.kind = "http" /\ o.status = 404}

\* A request that has not begun
NewRequest == [pc |-> "start", called |-> FALSE, fetched |-> EmptyDict, result |-> EmptyDict]

StampedeInit ==
    /\ cache = EmptyCache
    /\ prev = NoPrev
    /\ last = [op |-> "concurrent", requests |-> [p \in Requests |-> NewRequest]]

\* One request moves on
Moved(p, request) == [last EXCEPT !.requests[p] = request]

\* cached_data = cache.get(cache_key): a hit returns at once
CheckCache(p) ==
    /\ last.requests[p].pc = "start"
    /\ IF cache_has(cache, StampedeKey)
       THEN last' = Moved(p, [last.requests[p] EXCEPT
                                  !.pc = "done",
                                  !.result = cached_weather(cache[StampedeKey])])
       ELSE last' = Moved(p, [last.requests[p] EXCEPT !.pc = "missed"])
    /\ UNCHANGED <<cache, prev>>

\* weather_data = self._fetch_from_api(city)
Fetch(p, outcome) ==
    /\ last.requests[p].pc = "missed"
    /\ last' = Moved(p, [last.requests[p] EXCEPT
                             !.pc = "fetched",
                             !.called = TRUE,
                             !.fetched = fetch_from_api(StampedeCity, outcome)])
    /\ UNCHANGED <<cache, prev>>

\* cache.set of a successful fetch, the from_cache mark and the return; the
\* except clause when the fetch raised
StoreAndReturn(p) ==
    LET fetched == last.requests[p].fetched
    IN  /\ last.requests[p].pc = "fetched"
        /\ IF fetched.raised THEN
               /\ last' = Moved(p, [last.requests[p] EXCEPT
                                        !.pc = "done",
                                        !.result = [success |-> FALSE,
                                                    error |-> "Failed to fetch weather data",
                                                    details |-> "str(e)"]])
               /\ UNCHANGED cache
           ELSE
               /\ cache' = store_weather(cache, StampedeKey, fetched.value)
               /\ last' = Moved(p, [last.requests[p] EXCEPT
                                        !.pc = "done",
                                        !.result = SetField(fetched.value, "from_cache", FALSE)])
        /\ UNCHANGED prev

StampedeNext ==
    \/ \E p \in Requests : CheckCache(p)
    \/ \E p \in Requests, outcome \in StampedeOutcomes : Fetch(p, outcome)
    \/ \E p \in Requests : StoreAndReturn(p)

StampedeSpec == StampedeInit /\ [][StampedeNext]_vars

\* A request has returned
Done(p) == last.requests[p].pc = "done"

\* The dicts a successful fetch can give for the city
FreshEntries == {format_weather(b) : b \in WeatherBodies(StampedeCity)}

\* A result is a success dict marked with from_cache, or a failure dict
WellFormed(result) ==
    /\ "success" \in DOMAIN result
    /\ IF result.success
       THEN /\ "from_cache" \in DOMAIN result
            /\ result.from_cache \in BOOLEAN
            /\ WithoutField(result, "from_cache") \in FreshEntries
       ELSE "error" \in DOMAIN result

\* C24: there is no single-flight. When NumRequests requests for the same
\* uncached city run concurrently, in every interleaving each request that has
\* returned has a well-formed result, marked from_cache exactly when it did
\* not call the provider; the cache holds at most the one entry of the city,
\* a successful dict that one of the requests fetched; and once all have
\* returned and any of them succeeded the cache holds that entry. (That all
\* of them can miss, call the provider and return from_cache = FALSE is the
\* state C24_Witness.)
C24_StampedeSafe ==
    last.op = "concurrent" =>
        /\ \A p \in Requests :
               Done(p) =>
                   /\ WellFormed(last.requests[p].result)
                   /\ last.requests[p].result.success =>
                          last.requests[p].result.from_cache = ~last.requests[p].called
        /\ DOMAIN cache \subseteq {StampedeKey}
        /\ StampedeKey \in DOMAIN cache =>
               /\ cache[StampedeKey].success
               /\ \E p \in Requests :
                      /\ Done(p)
                      /\ last.requests[p].called
                      /\ ~last.requests[p].fetched.raised
                      /\ last.requests[p].fetched.value = cache[StampedeKey]
        /\ ((\A p \in Requests : Done(p))
               /\ (\E p \in Requests : last.requests[p].result.success)) =>
               StampedeKey \in DOMAIN cache

C24_Witness ==
    /\ last.op = "concurrent"
    /\ \A p \in Requests :
           /\ Done(p)
           /\ last.requests[p].called
           /\ last.requests[p].result.success
           /\ last.requests[p].result.from_cache = FALSE
    /\ StampedeKey \in DOMAIN cache
    /\ \E p \in Requests : last.requests[p].fetched.value # cache[StampedeKey]

-----------------------------------------------------------------------------
(* Concurrent logging: NumRequests get_weather views, each after a successful
   lookup of the same city, write to the database. The view holds no lock and
   opens no transaction; its accesses are the insert of the WeatherQuery row,
   the get_or_create that loads the FavoriteCity row, and the save of
   increment_query_count, which writes the loaded count plus one. *)

\* A view that has its successful weather_data and has not yet logged
NewLogging == [pc |-> "start", loaded |-> 0]

CounterInit ==
    /\ cache = EmptyCache
    /\ prev = NoPrev
    /\ last = [op |-> "counting", rows |-> 0,
               favorite |-> [exists |-> FALSE, query_count |-> 0],
               requests |-> [p \in Requests |-> NewLogging]]

\* WeatherQuery.objects.create(...)
CreateQueryRow(p) ==
    /\ last.requests[p].pc = "start"
    /\ last' = [last EXCEPT !.rows = @ + 1, !.requests[p].pc = "logged"]
    /\ UNCHANGED <<cache, prev>>

\* favorite, created = FavoriteCity.objects.get_or_create(city=...): the row is
\* made with query_count 0 if it is not there, and read into the view's object
GetOrCreateFavorite(p) ==
    /\ last.requests[p].pc = "logged"
    /\ last' = [last EXCEPT !.favorite.exists = TRUE,
                            !.requests[p].pc = "loaded",
                            !.requests[p].loaded = last.favorite.query_count]
    /\ UNCHANGED <<cache, prev>>

\* favorite.increment_query_count(): self.query_count += 1 on the object read,
\* then self.save() writes that value to the row
IncrementQueryCount(p) ==
    /\ last.requests[p].pc = "loaded"
    /\ last' = [last EXCEPT !.favorite.query_count = last.requests[p].loaded + 1,
                            !.requests[p].pc = "done"]
    /\ UNCHANGED <<cache, prev>>

CounterNext ==
    \/ \E p \in Requests : CreateQueryRow(p)
    \/ \E p \in Requests : GetOrCreateFavorite(p)
    \/ \E p \in Requests : IncrementQueryCount(p)

CounterSpec == CounterInit /\ [][CounterNext]_vars

\* C31 as stated: after NumRequests successful get-current-weather requests
\* for the same city, in any interleaving, each has logged one record and the
\* city's counter equals NumRequests: no increment is lost.
C31_NoLostIncrement ==
    (last.op = "counting" /\ \A p \in Requests : last.requests[p].pc = "done") =>
        /\ last.rows = NumRequests
        /\ last.favorite.query_count = NumRequests

-----------------------------------------------------------------------------
(* The engine's get_weather on a cache store that can raise: cache.get is
   called before the try block of get_weather, cache.set inside it. *)

\* What the cache store does with the accesses of one call
StoreOutcomes == {"ok", "get_fails", "set_fails"}

\* Faulty variant of get_weather_on_store: a failed cache.set is passed over
get_weather_on_store_tolerant(c, cityArg, outcome, store) ==
    LET r == get_weather(c, cityArg, outcome)
    IN  IF r.reads # <<>> /\ store = "get_fails"
        THEN [raised |-> TRUE, cache |-> c, calls |-> <<>>, reads |-> r.reads]
        ELSE [raised |-> FALSE, result |-> r.result,
              cache |-> IF store = "set_fails" THEN c ELSE r.cache,
              calls |-> r.calls, reads |-> r.reads]

\* get_weather on such a store: an exception of cache.get leaves get_weather;
\* an exception of cache.set, made after a successful fetch, is caught by the
\* except clause, which returns its failure dict
get_weather_on_store(c, cityArg, outcome, store) ==
    LET r == get_weather(c, cityArg, outcome)
    IN  IF r.reads # <<>> /\ store = "get_fails"
        THEN [raised |-> TRUE, cache |-> c, calls |-> <<>>, reads |-> r.reads]
        ELSE IF store = "set_fails" /\ r.calls # <<>> /\ r.result.success
        THEN [raised |-> FALSE,
              result |-> [success |-> FALSE, error |-> "Failed to fetch weather data",
                          details |-> "str(e)"],
              cache |-> c, calls |-> r.calls, reads |-> r.reads]
        ELSE [raised |-> FALSE, result |-> r.result, cache |-> r.cache,
              calls |-> r.calls, reads |-> r.reads]

StoreInit ==
    /\ cache \in EngineCaches
    /\ prev = NoPrev
    /\ last \in {[op |-> "store_input", city |-> city, outcome |-> outcome, store |-> store] :
                     city \in EngineCities,
                     outcome \in WeatherOutcomes(<<"P", "a">>),
                     store \in StoreOutcomes}

\* get_weather is applied to the input drawn
StoreApply ==
    /\ last.op = "store_input"
    /\ \E r \in {get_weather_on_store(cache, last.city, last.outcome, last.store)} :
           /\ last' = [op |-> "store_output", city |-> last.city,
                       outcome |-> last.outcome, store |-> last.store,
                       returned |-> r, before |-> cache]
           /\ cache' = r.cache
    /\ UNCHANGED prev

StoreNext == StoreApply

StoreSpec == StoreInit /\ [][StoreNext]_vars

\* The call drawn is a miss: a city that is not blank and not in the cache
StoreMiss == ~BlankCity /\ get_cache_key(last.city) \notin DOMAIN last.before

\* C34: the outcome of getCurrentWeather depends on the cache write. When the
\* provider fetch succeeds and the store's set fails, the call returns the
\* failure 'Failed to fetch weather data', without the fetched weather and
\* with nothing cached; when the store's get fails the call returns no dict
\* at all: the exception leaves get_weather before any provider request.
C34_StoreFailures ==
    last.op = "store_output" =>
        /\ (last.store = "set_fails" /\ StoreMiss /\ last.outcome.kind = "ok") =>
               /\ ~last.returned.raised
               /\ last.returned.result
                      = [success |-> FALSE, error |-> "Failed to fetch weather data",
                         details |-> "str(e)"]
               /\ Len(last.returned.calls) = 1
               /\ cache = last.before
        /\ (last.store = "get_fails" /\ ~BlankCity) =>
               /\ last.returned.raised
               /\ "result" \notin DOMAIN last.returned
               /\ last.returned.calls = <<>>
               /\ cache = last.before
        /\ (last.store = "set_fails" /\ ~StoreMiss) =>
               /\ ~last.returned.raised
               /\ last.returned.result = get_weather(last.before, last.city, last.outcome).result

C34_Witness ==
    /\ last.op = "store_output"
    /\ last.store = "set_fails"
    /\ last.city = <<"P", "a">>
    /\ last.outcome.kind = "ok"
    /\ last.returned.calls # <<>>
    /\ last.returned.result.error = "Failed to fetch weather data"

-----------------------------------------------------------------------------
(* A clear during lookups: the concurrent get_weather calls of StampedeSpec,
   with one clear_cache(city) for their city run at any moment between their
   steps. clear_cache is one cache.delete. *)

ClearRaceInit ==
    /\ cache = EmptyCache
    /\ prev = NoPrev
    /\ last = [op |-> "clear_race", requests |-> [p \in Requests |-> NewRequest],
               cleared |-> FALSE, atClear |-> [p \in Requests |-> "start"]]

\* clear_cache(city); where each request stood at that moment is kept
ClearCity ==
    /\ ~last.cleared
    /\ cache' = clear_cache(cache, StampedeCity)
    /\ last' = [last EXCEPT !.cleared = TRUE,
                            !.atClear = [p \in Requests |-> last.requests[p].pc]]
    /\ UNCHANGED prev

ClearRaceNext ==
    \/ \E p \in Requests : CheckCache(p)
    \/ \E p \in Requests, outcome \in StampedeOutcomes : Fetch(p, outcome)
    \/ \E p \in Requests : StoreAndReturn(p)
    \/ ClearCity

ClearRaceSpec == ClearRaceInit /\ [][ClearRaceNext]_vars

\* Request p fetched the entry the cache holds
FetchedEntry(p) ==
    /\ last.requests[p].called
    /\ last.requests[p].pc \in {"fetched", "done"}
    /\ ~last.requests[p].fetched.raised
    /\ last.requests[p].fetched.value = cache[StampedeKey]

\* C33: clearCache(city) is not durable against an in-flight miss. The delete
\* itself takes effect, so an entry found in the cache after clearCache has
\* returned was written after it, by a request that had not yet returned
\* when the clear ran. (That such an entry can be a fetch made before the
\* clear, served with from_cache = TRUE to a request that began after it, is
\* the state C33_Witness.)
C33_ClearThenLateWrite ==
    (last.op = "clear_race" /\ last.cleared /\ StampedeKey \in DOMAIN cache) =>
        \E p \in Requests :
            /\ last.atClear[p] # "done"
            /\ Done(p)
            /\ FetchedEntry(p)

C33_Witness ==
    /\ last.op = "clear_race"
    /\ last.cleared
    /\ StampedeKey \in DOMAIN cache
    /\ \E p \in Requests :
           /\ last.atClear[p] = "fetched"
           /\ FetchedEntry(p)
           /\ \A r \in Requests \ {p} : ~FetchedEntry(r)
    /\ \E q \in Requests :
           /\ last.atClear[q] = "start"
           /\ Done(q)
           /\ ~last.requests[q].called
           /\ last.requests[q].result = SetField(cache[StampedeKey], "from_cache", TRUE)

=============================================================================
